---- MODULE Spec2Model ----
(***************************************************************************)
(* A model of the TMDB incremental update job (update_job.py): the upsert  *)
(* engine, the watermark store, the detail fetch loop and the run          *)
(* pipeline, over a database of five relations and the last_updates table. *)
(***************************************************************************)
EXTENDS Integers, Sequences, FiniteSets, Bags, TLC

VARIABLES
    db,            \* the database: name of each existing table -> bag of its rows
    temp,          \* temporary objects of the connection: "tmp_df", "old_inserted_at"
    previews,      \* the preview CSV files written: relation and time of writing
    clock,         \* wall clock / CURRENT_TIMESTAMP
    pc,            \* position of the current call
    args,          \* arguments of the current call (flags of run, batch of an upsert)
    loc,           \* locals of run: last_run, now, id lists, loop index, row lists
    log,           \* what the current run obtained from upstream, per identifier
    hist,          \* the latest calls and their effect, newest first (observation only)
    calls          \* number of calls made so far

vars == <<db, temp, previews, clock, pc, args, loc, log, hist, calls>>

---------------------------------------------------------------------------
(* Bounds of the model *)

MaxTime == 2
MaxCalls == 2
MaxBatch == 2

---------------------------------------------------------------------------
(* Python / SQL values.  Every value is a record of the same shape so that *)
(* any two values can be compared.                                         *)

NULL == [t |-> "null", s |-> "", n |-> 0]
IntV(k) == [t |-> "int", s |-> "", n |-> k]
StrV(x) == [t |-> "str", s |-> x, n |-> 0]
BoolV(b) == [t |-> "bool", s |-> "", n |-> IF b THEN 1 ELSE 0]
\* a JSON array or object, named by its Python repr
ListV(x) == [t |-> "list", s |-> x, n |-> 0]

\* dict.get(k): None when the key is missing
Get(d, k) == IF k \in DOMAIN d THEN d[k] ELSE NULL

\* str(v) if isinstance(v, (list, dict)) else v
Stringify(v) == IF v.t = "list" THEN StrV(v.s) ELSE v

\* bool(v) of Python, for JSON values
Truthy(v) ==
    CASE v.t = "null" -> FALSE
      [] v.t = "int" -> v.n # 0
      [] v.t = "bool" -> v.n = 1
      [] v.t = "str" -> v.s # ""
      [] v.t = "list" -> v.s \notin {"[]", "{}"}
      [] OTHER -> TRUE

Range(f) == {f[x] : x \in DOMAIN f}

\* the first n elements of a sequence, or all of it
Newest(q, n) == SubSeq(q, 1, IF Len(q) < n THEN Len(q) ELSE n)

RECURSIVE BagOfSeq(_)
BagOfSeq(s) == IF s = <<>> THEN EmptyBag
               ELSE SetToBag({Head(s)}) (+) BagOfSeq(Tail(s))

---------------------------------------------------------------------------
(* Canonical column lists *)

MOVIES_COLS == <<"id", "adult", "backdrop_path", "belongs_to_collection",
    "budget", "genres", "homepage", "imdb_id", "origin_country",
    "original_language", "original_title", "overview", "popularity",
    "poster_path", "production_companies", "production_countries",
    "release_date", "revenue", "runtime", "spoken_languages", "status",
    "tagline", "title", "video", "vote_average", "vote_count">>

MOVIE_CAST_COLS == <<"movie_id", "person_id", "name", "credit_id",
    "character", "cast_order", "gender", "profile_path",
    "known_for_department", "popularity", "original_name", "cast_id">>

MOVIE_CREW_COLS == <<"movie_id", "person_id", "name", "credit_id", "gender",
    "profile_path", "known_for_department", "popularity", "original_name",
    "adult", "department", "job">>

TV_SHOWS_COLS == <<"id", "episode_run_time", "homepage", "in_production",
    "last_air_date", "number_of_episodes", "number_of_seasons",
    "origin_country", "production_countries", "status", "type">>

TV_CAST_COLS == <<"tv_id", "person_id", "name", "credit_id", "character",
    "cast_order", "gender", "profile_path", "known_for_department",
    "popularity", "original_name", "roles", "total_episode_count", "cast_id",
    "also_known_as">>

\* the five relations, in the order run upserts them
Relations == <<"movies", "movie_cast", "movie_crew", "tv_shows", "tv_show_cast_crew">>

CanonicalCols(table_name) ==
    CASE table_name = "movies" -> MOVIES_COLS
      [] table_name = "movie_cast" -> MOVIE_CAST_COLS
      [] table_name = "movie_crew" -> MOVIE_CREW_COLS
      [] table_name = "tv_shows" -> TV_SHOWS_COLS
      [] table_name = "tv_show_cast_crew" -> TV_CAST_COLS

\* the key_col argument run passes for each relation
KeyCol(table_name) ==
    CASE table_name = "movies" -> "id"
      [] table_name = "movie_cast" -> "movie_id"
      [] table_name = "movie_crew" -> "movie_id"
      [] table_name = "tv_shows" -> "id"
      [] table_name = "tv_show_cast_crew" -> "tv_id"

\* relations ensure_tables declares with "id BIGINT PRIMARY KEY"
HasPrimaryKey(table_name) == table_name \in {"movies", "tv_shows"}

---------------------------------------------------------------------------
(* pd.to_datetime(val, format="%Y-%m-%d", errors="raise") *)

Digits == {"0", "1", "2", "3", "4", "5", "6", "7", "8", "9"}

DigitVal(c) ==
    CASE c = "0" -> 0 [] c = "1" -> 1 [] c = "2" -> 2 [] c = "3" -> 3
      [] c = "4" -> 4 [] c = "5" -> 5 [] c = "6" -> 6 [] c = "7" -> 7
      [] c = "8" -> 8 [] c = "9" -> 9

Ch(s, k) == SubSeq(s, k, k)

IsLeap(y) == (y % 4 = 0 /\ y % 100 # 0) \/ y % 400 = 0

DaysIn(y, m) ==
    IF m = 2 THEN (IF IsLeap(y) THEN 29 ELSE 28)
    ELSE IF m \in {4, 6, 9, 11} THEN 30 ELSE 31

\* TRUE when the string is a zero-padded YYYY-MM-DD naming a calendar day
ParsesAsDate(s) ==
    /\ Len(s) = 10
    /\ Ch(s, 5) = "-" /\ Ch(s, 8) = "-"
    /\ \A k \in {1, 2, 3, 4, 6, 7, 9, 10} : Ch(s, k) \in Digits
    /\ LET y == 1000 * DigitVal(Ch(s, 1)) + 100 * DigitVal(Ch(s, 2))
                + 10 * DigitVal(Ch(s, 3)) + DigitVal(Ch(s, 4))
           m == 10 * DigitVal(Ch(s, 6)) + DigitVal(Ch(s, 7))
           d == 10 * DigitVal(Ch(s, 9)) + DigitVal(Ch(s, 10))
       IN /\ y >= 1
          /\ m >= 1 /\ m <= 12
          /\ d >= 1 /\ d <= DaysIn(y, m)

\* only null and the empty string are nulled; nothing is parsed
clean_date_unparsed(val) ==
    IF val.t = "null" \/ val = StrV("") THEN NULL ELSE val

\* clean_release_date / clean_date: the value itself when it parses, else None
clean_date(val) ==
    IF val.t = "null" \/ val = StrV("") THEN NULL
    ELSE IF val.t = "str" /\ ParsesAsDate(val.s) THEN val
    ELSE NULL

---------------------------------------------------------------------------
(* upsert_table_from_rows: the DataFrame steps *)

\* pd.DataFrame(rows): one column per key of any row, missing cells null
DataFrame(rows) ==
    LET columns == UNION {DOMAIN rows[k] : k \in DOMAIN rows}
    IN [k \in DOMAIN rows |-> [c \in columns |-> Get(rows[k], c)]]

\* df[c].apply(str if list or dict), for every column
StringifyFrame(df) ==
    [k \in DOMAIN df |-> [c \in DOMAIN df[k] |-> Stringify(df[k][c])]]

\* df[col].apply(clean_date) when the table and the column call for it
CleanColumn(df, table_name, on_table, col) ==
    [k \in DOMAIN df |->
        IF table_name = on_table /\ col \in DOMAIN df[k]
        THEN [df[k] EXCEPT ![col] = clean_date(@)]
        ELSE df[k]]

\* df.reindex(columns=canonical_cols, fill_value=None)
Reindex(df, canonical_cols) ==
    [k \in DOMAIN df |-> [c \in Range(canonical_cols) |-> Get(df[k], c)]]

\* the frame registered as tmp_df
Normalize(rows, table_name, canonical_cols) ==
    LET df == CleanColumn(StringifyFrame(DataFrame(rows)),
                          table_name, "movies", "release_date")
        df_reindexed == Reindex(df, canonical_cols)
    IN CleanColumn(CleanColumn(df_reindexed, table_name, "movies", "release_date"),
                   table_name, "tv_shows", "last_air_date")

\* the key column the statements use, "" for none
DetermineKey(canonical_cols, key_col) ==
    LET cols == Range(canonical_cols)
    IN IF key_col # "" /\ key_col \in cols THEN key_col
       ELSE IF "id" \in cols THEN "id"
       ELSE IF "movie_id" \in cols THEN "movie_id"
       ELSE IF "tv_id" \in cols THEN "tv_id"
       ELSE ""

---------------------------------------------------------------------------
(* upsert_table_from_rows: the SQL statements.  A table is a bag of rows;  *)
(* a stored row is the canonical columns plus inserted_at and updated_at.  *)

RECURSIVE SumCounts(_, _)
SumCounts(S, B) ==
    IF S = {} THEN 0
    ELSE LET r == CHOOSE x \in S : TRUE
         IN B[r] + SumCounts(S \ {r}, B)

\* the rows of bag B whose key column has a value in K
RowsWithKey(B, key, K) ==
    LET sel == {r \in DOMAIN B : r[key] \in K}
    IN [r \in sel |-> B[r]]

\* SELECT DISTINCT t.key FROM tmp_df t, as "IN" uses it: NULL matches nothing
BatchKeys(tmp_df, key) == {tmp_df[k][key] : k \in DOMAIN tmp_df} \ {NULL}

\* CREATE OR REPLACE TEMP TABLE old_inserted_at AS SELECT o.key, o.inserted_at ...
\* one row per stored row with a batch key (no DISTINCT)
OldInsertedAt(T, key, K) ==
    LET sel == {r \in DOMAIN T : r[key] \in K}
        proj(r) == [k |-> r[key], inserted_at |-> r["inserted_at"]]
    IN [o \in {proj(r) : r \in sel} |-> SumCounts({r \in sel : proj(r) = o}, T)]

Stamp(t, inserted_at, updated_at) ==
    t @@ ("inserted_at" :> inserted_at @@ "updated_at" :> updated_at)

\* the rows "tmp_df t LEFT JOIN old_inserted_at o ON t.key = o.key" yields for t
JoinRow(t, key, old, ts) ==
    LET M == IF key = "" THEN {} ELSE {o \in DOMAIN old : o.k = t[key]}
    IN IF M = {} THEN SetToBag({Stamp(t, ts, ts)})
       ELSE [x \in {Stamp(t, o.inserted_at, ts) : o \in M} |->
                old[[k |-> t[key], inserted_at |-> x["inserted_at"]]]]

\* INSERT INTO table SELECT t.*, COALESCE(o.inserted_at, CURRENT_TIMESTAMP),
\* CURRENT_TIMESTAMP FROM tmp_df t LEFT JOIN old_inserted_at o ...
RECURSIVE InsertSelect(_, _, _, _)
InsertSelect(tmp_df, key, old, ts) ==
    IF tmp_df = <<>> THEN EmptyBag
    ELSE JoinRow(Head(tmp_df), key, old, ts)
         (+) InsertSelect(Tail(tmp_df), key, old, ts)

\* the INSERT violates "id BIGINT PRIMARY KEY": a null or repeated id
ViolatesPrimaryKey(table_name, T, ins) ==
    /\ HasPrimaryKey(table_name)
    /\ LET ids == {r["id"] : r \in DOMAIN ins}
       IN \/ NULL \in ids
          \/ BagCardinality(ins) # Cardinality(ids)
          \/ \E r \in DOMAIN T : r["id"] \in ids

\* the statements at which the storage can fail
Faults == {"none", "register", "create", "delete", "insert"}

\* the finally block unregisters tmp_df and leaves old_inserted_at
AfterFinally_keeps_table(objects) == objects \ {"tmp_df"}

\* the temporary objects the finally block leaves: it unregisters tmp_df
\* and drops old_inserted_at on every path
AfterFinally(objects) == objects \ {"tmp_df", "old_inserted_at"}

\* upsert_table_from_rows from "df = pd.DataFrame(rows)" on, for a batch that
\* is not empty
UpsertRows(T, rows, table_name, canonical_cols, key_col, dry_run, ts, fault) ==
    LET tmp_df == Normalize(rows, table_name, canonical_cols)
        key == DetermineKey(canonical_cols, key_col)
        K == IF key = "" THEN {} ELSE BatchKeys(tmp_df, key)
        old == IF key = "" THEN EmptyBag ELSE OldInsertedAt(T, key, K)
        kept == IF key = "" THEN T ELSE T (-) RowsWithKey(T, key, K)
        ins == InsertSelect(tmp_df, key, old, ts)
    IN IF dry_run
       THEN [table |-> T, temp |-> {}, preview |-> TRUE, raised |-> FALSE]
       ELSE IF fault = "register"
       THEN [table |-> T, temp |-> {}, preview |-> FALSE, raised |-> TRUE]
       ELSE IF fault = "create"
       THEN [table |-> T, temp |-> AfterFinally({"tmp_df"}),
             preview |-> FALSE, raised |-> TRUE]
       ELSE IF fault = "delete"
       THEN [table |-> T, temp |-> AfterFinally({"tmp_df", "old_inserted_at"}),
             preview |-> FALSE, raised |-> TRUE]
       ELSE IF fault = "insert" \/ ViolatesPrimaryKey(table_name, kept, ins)
       THEN [table |-> kept, temp |-> AfterFinally({"tmp_df", "old_inserted_at"}),
             preview |-> FALSE, raised |-> TRUE]
       ELSE [table |-> kept (+) ins, temp |-> AfterFinally({"tmp_df", "old_inserted_at"}),
             preview |-> FALSE, raised |-> FALSE]

\* the empty-batch guard placed after con.register and outside the try
upsert_registers_before_guard(T, rows, table_name, canonical_cols, key_col, dry_run, ts, fault) ==
    IF rows = <<>>
    THEN [table |-> T, temp |-> {"tmp_df"}, preview |-> FALSE, raised |-> FALSE]
    ELSE UpsertRows(T, rows, table_name, canonical_cols, key_col, dry_run, ts, fault)

\* the dry_run flag is not looked at: the statements run in a dry run too
upsert_ignores_dry_run(T, rows, table_name, canonical_cols, key_col, dry_run, ts, fault) ==
    IF rows = <<>>
    THEN [table |-> T, temp |-> {}, preview |-> FALSE, raised |-> FALSE]
    ELSE UpsertRows(T, rows, table_name, canonical_cols, key_col, FALSE, ts, fault)

\* upsert_table_from_rows(con, rows, table_name, canonical_cols, key_col, dry_run)
\* on table content T at time ts; result: the new content, the temporary
\* objects left, whether a preview was written, whether the call raised
upsert_table_from_rows(T, rows, table_name, canonical_cols, key_col, dry_run, ts, fault) ==
    IF rows = <<>>
    THEN [table |-> T, temp |-> {}, preview |-> FALSE, raised |-> FALSE]
    ELSE UpsertRows(T, rows, table_name, canonical_cols, key_col, dry_run, ts, fault)

---------------------------------------------------------------------------
(* ensure_tables and the watermark store *)

Tables == Range(Relations) \cup {"last_updates"}

\* a database without tables
FreshDb == [t \in {} |-> EmptyBag]

\* CREATE TABLE IF NOT EXISTS for the six tables: existing rows are kept
ensure_tables(d) == [t \in Tables |-> IF t \in DOMAIN d THEN d[t] ELSE EmptyBag]

\* timedelta(days=7), the default lookback of get_last_run
LookbackDays == 7

\* a datetime, the string datetime.isoformat() makes of it, and what a
\* TIMESTAMP column stores and hands back for either: a datetime
DateTime(n) == [t |-> "datetime", s |-> "", n |-> n]
isoformat(dt) == [t |-> "str", s |-> "isoformat", n |-> dt.n]
AsTimestamp(v) == IF v.t \in {"datetime", "str"} THEN DateTime(v.n) ELSE NULL

\* datetime.fromisoformat(x) and datetime.strptime(x, fmt) accept a str only:
\* anything else raises TypeError, which get_last_run swallows
ParsesAsDateTime(v) == v.t = "str" /\ v.s = "isoformat"

\* set_last_run(con, ts, job_name): INSERT INTO last_updates VALUES
\* (job_name, ts.isoformat(), CURRENT_TIMESTAMP, CURRENT_TIMESTAMP)
set_last_run(d, ts, job_name, current) ==
    [d EXCEPT !["last_updates"] = @ (+) SetToBag({
        [job_name |-> job_name, last_run |-> AsTimestamp(isoformat(DateTime(ts))),
         inserted_at |-> current, updated_at |-> current]})]

\* SELECT last_run FROM last_updates WHERE job_name = ? ORDER BY last_run DESC
\* LIMIT 1: the set holding row[0] of fetchone(), empty when there is no row
NewestLastRun(d, job_name) ==
    LET rows == {r \in DOMAIN d["last_updates"] : r.job_name = job_name}
    IN {r.last_run : r \in {x \in rows : \A y \in rows : y.last_run.n <= x.last_run.n}}

\* get_last_run(con, job_name) at time current: the time it returns
get_last_run(d, job_name, current) ==
    LET found == NewestLastRun(d, job_name)
    IN IF found # {} /\ (CHOOSE v \in found : TRUE).t # "null"
          /\ ParsesAsDateTime(CHOOSE v \in found : TRUE)
       THEN (CHOOSE v \in found : TRUE).n
       ELSE current - LookbackDays

---------------------------------------------------------------------------
(* Upstream payloads.  A response body is a JSON value: an object (a       *)
(* function from field names to values), null, or something else; a        *)
(* request can also raise (connection error, undecodable body).            *)

MovieIdSet == {12, 34}
TvIdSet == {7}

Object(fields) == [kind |-> "object", body |-> fields]
JsonNull == [kind |-> "null", body |-> <<>>]
JsonArray == [kind |-> "array", body |-> <<>>]
Raises == [kind |-> "exception", body |-> <<>>]

\* the body TMDB sends with a 4xx/5xx status
ErrorPayload ==
    Object([success |-> BoolV(FALSE), status_code |-> IntV(34),
            status_message |-> StrV("The resource you requested could not be found.")])

DetailVersions == {"A", "B"}

MovieDetail(mid, v) ==
    IF v = "A"
    THEN Object([id |-> IntV(mid), title |-> StrV("A"),
                 release_date |-> StrV("2020-01-15"),
                 genres |-> ListV("[{'id': 18, 'name': 'Drama'}]"),
                 alternative_titles |-> ListV("{'titles': []}")])
    ELSE Object([id |-> IntV(mid), title |-> StrV("B"),
                 release_date |-> StrV("0000-00-00")])

TvDetail(tid, v) ==
    IF v = "A"
    THEN Object([id |-> IntV(tid), name |-> StrV("A"), status |-> StrV("Ended"),
                 last_air_date |-> StrV("2019-05-19"),
                 episode_run_time |-> ListV("[60]")])
    ELSE Object([id |-> IntV(tid), name |-> StrV("B"), last_air_date |-> StrV("")])

\* entries of a credits payload's cast list, in feed order
CastEntries ==
    << [id |-> IntV(501), name |-> StrV("Ann"), credit_id |-> StrV("c501"),
        character |-> StrV("Hero"), order |-> IntV(0)],
       [id |-> IntV(502), name |-> StrV("Bob"), credit_id |-> StrV("c502"),
        character |-> StrV("Villain"), order |-> IntV(1)],
       [id |-> IntV(503), name |-> StrV("Cy"), credit_id |-> StrV("c503"),
        character |-> StrV("Friend"), order |-> IntV(2)] >>

CrewEntries ==
    << [id |-> IntV(601), name |-> StrV("Dee"), credit_id |-> StrV("c601"),
        department |-> StrV("Directing"), job |-> StrV("Director")],
       [id |-> IntV(602), name |-> StrV("Eli"), credit_id |-> StrV("c602"),
        department |-> StrV("Writing"), job |-> StrV("Writer")] >>

AggCastEntries ==
    << [id |-> IntV(701), name |-> StrV("Fay"),
        roles |-> ListV("[{'character': 'Lead'}]"), total_episode_count |-> IntV(8)],
       [id |-> IntV(702), name |-> StrV("Gus"), total_episode_count |-> IntV(2)] >>

MaxCast == 2
MaxCrew == 1

\* the first n entries, or all of them
Prefix(entries, n) == SubSeq(entries, 1, IF n < Len(entries) THEN n ELSE Len(entries))

Credits(cast, crew) == Object([cast |-> cast, crew |-> crew])
AggCredits(cast) == Object([cast |-> cast])

\* credits payloads: none, one, two ... cast members, with a crew as large
\* up to MaxCrew
MovieCreditsBodies ==
    {Credits(Prefix(CastEntries, n), Prefix(CrewEntries, IF n < MaxCrew THEN n ELSE MaxCrew)) :
        n \in 0 .. MaxCast}
TvCreditsBodies == {AggCredits(Prefix(AggCastEntries, n)) : n \in 0 .. MaxCrew}

---------------------------------------------------------------------------
(* The rows run builds from the payloads *)

\* str(v) of Python
PyStr(v) ==
    CASE v.t = "null" -> StrV("None")
      [] v.t = "int" -> StrV(ToString(v.n))
      [] v.t = "bool" -> StrV(IF v.n = 1 THEN "True" ELSE "False")
      [] OTHER -> StrV(v.s)

\* detail_row = {k: str(v) if list or dict else v}; setdefault('id', id);
\* {k: detail_row.get(k) for k in cols}
EntityRow(id, detail, cols) ==
    LET detail_row == [k \in DOMAIN detail |-> Stringify(detail[k])]
        with_id == IF "id" \in DOMAIN detail_row THEN detail_row
                   ELSE detail_row @@ ("id" :> IntV(id))
    IN [k \in Range(cols) |-> Get(with_id, k)]

MovieCastRow(mid, c) ==
    [movie_id |-> IntV(mid), person_id |-> Get(c, "id"), name |-> Get(c, "name"),
     credit_id |-> Get(c, "credit_id"), character |-> Get(c, "character"),
     cast_order |-> Get(c, "cast_order"), gender |-> Get(c, "gender"),
     profile_path |-> Get(c, "profile_path"),
     known_for_department |-> Get(c, "known_for_department"),
     popularity |-> Get(c, "popularity"), original_name |-> Get(c, "original_name"),
     cast_id |-> Get(c, "cast_id")]

MovieCrewRow(mid, crew) ==
    [movie_id |-> IntV(mid), person_id |-> Get(crew, "id"), name |-> Get(crew, "name"),
     credit_id |-> Get(crew, "credit_id"), gender |-> Get(crew, "gender"),
     profile_path |-> Get(crew, "profile_path"),
     known_for_department |-> Get(crew, "known_for_department"),
     popularity |-> Get(crew, "popularity"),
     original_name |-> Get(crew, "original_name"), adult |-> Get(crew, "adult"),
     department |-> Get(crew, "department"), job |-> Get(crew, "job")]

TvCastRow(tid, c) ==
    [tv_id |-> IntV(tid), person_id |-> Get(c, "id"), name |-> Get(c, "name"),
     credit_id |-> Get(c, "credit_id"), character |-> Get(c, "character"),
     cast_order |-> Get(c, "cast_order"), gender |-> Get(c, "gender"),
     profile_path |-> Get(c, "profile_path"),
     known_for_department |-> Get(c, "known_for_department"),
     popularity |-> Get(c, "popularity"), original_name |-> Get(c, "original_name"),
     roles |-> PyStr(Get(c, "roles")),
     total_episode_count |-> Get(c, "total_episode_count"),
     cast_id |-> Get(c, "cast_id"),
     also_known_as |-> IF Truthy(Get(c, "also_known_as"))
                       THEN PyStr(Get(c, "also_known_as")) ELSE NULL]

\* the credit rows of one payload list, in list order
MovieCastRows(mid, entries) == [k \in DOMAIN entries |-> MovieCastRow(mid, entries[k])]
MovieCrewRows(mid, entries) == [k \in DOMAIN entries |-> MovieCrewRow(mid, entries[k])]
TvCastRows(tid, entries) == [k \in DOMAIN entries |-> TvCastRow(tid, entries[k])]

---------------------------------------------------------------------------
(* The upsert engine on its own: one relation, any sequence of calls with  *)
(* batches of rows as run builds them, time passing between calls.         *)

SeqUpTo(S, n) == UNION {[1 .. k -> S] : k \in 0 .. n}

\* rows run can hand to the upsert of a relation
RowUniverse(table_name) ==
    CASE table_name = "movies" ->
            {EntityRow(m, MovieDetail(m, v).body, MOVIES_COLS) :
                m \in MovieIdSet, v \in DetailVersions}
      [] table_name = "movie_cast" ->
            {MovieCastRow(m, c) : m \in MovieIdSet,
                                  c \in Range(Prefix(CastEntries, MaxCast))}
      [] table_name = "movie_crew" ->
            {MovieCrewRow(m, c) : m \in MovieIdSet,
                                  c \in Range(Prefix(CrewEntries, MaxCrew))}
      [] table_name = "tv_shows" ->
            {EntityRow(m, TvDetail(m, v).body, TV_SHOWS_COLS) :
                m \in TvIdSet, v \in DetailVersions}
      [] table_name = "tv_show_cast_crew" ->
            {TvCastRow(m, c) : m \in TvIdSet,
                               c \in Range(Prefix(AggCastEntries, MaxCast))}

NoLocals == [last_run |-> 0, now |-> 0]

InitUpsert ==
    /\ db = ensure_tables(FreshDb)
    /\ temp = {}
    /\ previews = {}
    /\ clock = 0
    /\ pc = "upsert"
    /\ \E r \in Range(Relations) : args = [table_name |-> r]
    /\ loc = NoLocals
    /\ log = <<>>
    /\ hist = <<>>
    /\ calls = 0

\* one call upsert_table_from_rows(con, rows, table_name, cols, key_col, dry_run)
UpsertCall ==
    /\ pc = "upsert"
    /\ calls < MaxCalls
    /\ \E rows \in SeqUpTo(RowUniverse(args.table_name), MaxBatch),
          dry_run \in BOOLEAN, fault \in Faults :
        LET table_name == args.table_name
            res == upsert_table_from_rows(db[table_name], rows, table_name,
                       CanonicalCols(table_name), KeyCol(table_name),
                       dry_run, clock, fault)
        IN /\ db' = [db EXCEPT ![table_name] = res.table]
           /\ temp' = temp \cup res.temp
           /\ previews' = IF res.preview
                          THEN previews \cup {[table_name |-> table_name, at |-> clock]}
                          ELSE previews
           /\ hist' = Newest(<<[op |-> "upsert", table_name |-> table_name,
                                rows |-> rows, dry_run |-> dry_run,
                                raised |-> res.raised, before |-> db[table_name],
                                after |-> res.table, at |-> clock]>> \o hist, 2)
    /\ calls' = calls + 1
    /\ UNCHANGED <<clock, pc, args, loc, log>>

\* time passes
Tick ==
    /\ clock < MaxTime
    /\ clock' = clock + 1
    /\ UNCHANGED <<db, temp, previews, pc, args, loc, log, hist, calls>>

NextUpsert == UpsertCall \/ Tick

SpecUpsert == InitUpsert /\ [][NextUpsert]_vars

---------------------------------------------------------------------------
(* Properties of the upsert engine (SpecUpsert) *)

\* bag B with the columns in `drop` removed from every row
DropCols(B, drop) ==
    LET strip(r) == [c \in DOMAIN r \ drop |-> r[c]]
    IN [x \in {strip(r) : r \in DOMAIN B} |->
            SumCounts({r \in DOMAIN B : strip(r) = x}, B)]

\* the normalized batch rows of a recorded call that carry key value k
BatchRowsFor(h, k) ==
    LET tmp_df == Normalize(h.rows, h.table_name, CanonicalCols(h.table_name))
        key == KeyCol(h.table_name)
    IN BagOfSeq(SelectSeq(tmp_df, LAMBDA t : t[key] = k))

\* a recorded call that wrote: not a dry run, returned, batch not empty
Wrote(h) == h.op = "upsert" /\ ~h.dry_run /\ ~h.raised /\ h.rows # <<>>

\* C1: after a non-dry-run upsert of a non-empty batch that returned, the
\* rows stored under each key of the batch are exactly the batch's rows for
\* that key, one stored row per batch row, whatever the table held before.
C1_StoredRowsAreBatchRows ==
    (hist # <<>> /\ Wrote(hist[1])) =>
        LET h == hist[1]
            key == KeyCol(h.table_name)
            tmp_df == Normalize(h.rows, h.table_name, CanonicalCols(h.table_name))
        IN \A k \in BatchKeys(tmp_df, key) :
              DropCols(RowsWithKey(h.after, key, {k}), {"inserted_at", "updated_at"})
                  = BatchRowsFor(h, k)

\* C2: two upserts in a row with the same batch leave the same rows, in the
\* same number and with the same inserted_at, as the first alone; only
\* updated_at may differ.
C2_UpsertIdempotent ==
    (Len(hist) >= 2 /\ Wrote(hist[1]) /\ Wrote(hist[2])
        /\ hist[1].rows = hist[2].rows) =>
        DropCols(hist[1].after, {"updated_at"}) = DropCols(hist[2].after, {"updated_at"})

\* C10: an upsert with an empty row list leaves the relation as it was, rows
\* and timestamps, returns, and leaves no temporary object behind.
C10_EmptyBatchNoOp ==
    (hist # <<>> /\ hist[1].op = "upsert" /\ hist[1].rows = <<>>) =>
        /\ hist[1].after = hist[1].before
        /\ db[hist[1].table_name] = hist[1].before
        /\ ~hist[1].raised
        /\ temp = {}

\* an empty batch was upserted, not as a dry run, into a relation holding rows
C10_Witness ==
    /\ hist # <<>> /\ hist[1].op = "upsert" /\ hist[1].rows = <<>>
    /\ ~hist[1].dry_run
    /\ hist[1].before # EmptyBag

---------------------------------------------------------------------------
(* The watermark store on its own: set_last_run and get_last_run calls on  *)
(* the last_updates table ensure_tables creates, time passing in between.  *)

MaxEntries == 3

JobNames == {"weekly_update", "backfill"}

InitWatermark ==
    /\ db = ensure_tables(FreshDb)
    /\ temp = {}
    /\ previews = {}
    /\ clock = 0
    /\ pc = "watermark"
    /\ args = <<>>
    /\ loc = NoLocals
    /\ log = <<>>
    /\ hist = <<>>
    /\ calls = 0

\* set_last_run(con, ts, job_name) with ts a time not after the present
SetLastRunCall ==
    /\ pc = "watermark"
    /\ BagCardinality(db["last_updates"]) < MaxEntries
    /\ \E job_name \in JobNames, ts \in 0 .. clock :
        /\ db' = set_last_run(db, ts, job_name, clock)
        /\ hist' = Newest(<<[op |-> "set_last_run", job_name |-> job_name,
                             ts |-> ts, at |-> clock]>> \o hist, 2)
    /\ calls' = calls + 1
    /\ UNCHANGED <<temp, previews, clock, pc, args, loc, log>>

\* get_last_run(con, job_name)
GetLastRunCall ==
    /\ pc = "watermark"
    /\ \E job_name \in JobNames :
        hist' = Newest(<<[op |-> "get_last_run", job_name |-> job_name,
                          ts |-> get_last_run(db, job_name, clock),
                          at |-> clock]>> \o hist, 2)
    /\ UNCHANGED <<db, temp, previews, clock, pc, args, loc, log, calls>>

NextWatermark == SetLastRunCall \/ GetLastRunCall \/ Tick

SpecWatermark == InitWatermark /\ [][NextWatermark]_vars

\* the last_run values recorded for a job name
Recorded(job_name) ==
    {r.last_run.n : r \in {x \in DOMAIN db["last_updates"] : x.job_name = job_name}}

\* C8: get_last_run returns the greatest last_run recorded for the job name,
\* and the default, now minus 7 days, only when nothing is recorded for it.
C8_GetReturnsNewestRecorded ==
    (hist # <<>> /\ hist[1].op = "get_last_run") =>
        LET h == hist[1]
            rec == Recorded(h.job_name)
        IN IF rec = {} THEN h.ts = h.at - LookbackDays
           ELSE h.ts \in rec /\ \A x \in rec : x <= h.ts

---------------------------------------------------------------------------
(* run(sample_only, force_days, dry_run): the pipeline, one step per       *)
(* fetched identifier and per upserted relation.                           *)

MaxRuns == 2
MaxRunTime == 1
\* identifiers the change feed reports, over all runs together
MaxChanged == 2

SampleCaps == {0, 1}
\* force_days: None, or a number of days
ForceDays == {[given |-> FALSE, days |-> 0], [given |-> TRUE, days |-> 1]}

\* the identifier lists call_changes can return for a category, n at most
ChangeLists(ids, n) == SeqUpTo(ids, n)

\* ids[:sample_only] when sample_only > 0
Sample(ids, sample_only) ==
    IF sample_only > 0
    THEN SubSeq(ids, 1, IF sample_only < Len(ids) THEN sample_only ELSE Len(ids))
    ELSE ids

\* what the two requests for one identifier can be answered with
NotRequested == [kind |-> "none", body |-> <<>>]
MovieDetailResponses(mid) == {Raises, JsonNull, ErrorPayload, MovieDetail(mid, "A")}
TvDetailResponses(tid) == {Raises, JsonNull, ErrorPayload, TvDetail(tid, "A")}
MovieCreditsResponses == {Raises, JsonNull, ErrorPayload} \cup MovieCreditsBodies
TvCreditsResponses == {Raises, JsonNull, ErrorPayload} \cup TvCreditsBodies

\* fetch_movie_detail_and_credits / fetch_tv_detail_and_aggregate: both bodies,
\* or (None, None) when either request or its decoding raised
fetch_detail_and_credits(detail, credits) ==
    IF detail.kind = "exception" \/ credits.kind \in {"exception", "none"}
    THEN [detail |-> JsonNull, credits |-> JsonNull]
    ELSE [detail |-> detail, credits |-> credits]

\* bool(x) of a decoded body
TruthyBody(x) ==
    CASE x.kind = "null" -> FALSE
      [] x.kind = "object" -> DOMAIN x.body # {}
      [] OTHER -> TRUE

\* credits.get(name, [])
ListField(body, name) == IF name \in DOMAIN body THEN body[name] ELSE <<>>

NoRows == [raised |-> FALSE, entity |-> <<>>, cast |-> <<>>, crew |-> <<>>]

\* one iteration of the movie loop after the fetch: the rows it appends, and
\* whether it raised (AttributeError on a body that is not a dict)
MovieIteration(mid, got) ==
    IF ~TruthyBody(got.detail) THEN NoRows
    ELSE IF got.detail.kind # "object" THEN [NoRows EXCEPT !.raised = TRUE]
    ELSE LET row == EntityRow(mid, got.detail.body, MOVIES_COLS)
         IN IF got.credits.kind # "object"
            THEN [NoRows EXCEPT !.raised = TRUE, !.entity = <<row>>]
            ELSE [raised |-> FALSE, entity |-> <<row>>,
                  cast |-> MovieCastRows(mid, ListField(got.credits.body, "cast")),
                  crew |-> MovieCrewRows(mid, ListField(got.credits.body, "crew"))]

\* one iteration of the TV loop after the fetch
TvIteration(tid, got) ==
    IF ~TruthyBody(got.detail) THEN NoRows
    ELSE IF got.detail.kind # "object" THEN [NoRows EXCEPT !.raised = TRUE]
    ELSE LET row == EntityRow(tid, got.detail.body, TV_SHOWS_COLS)
         IN IF got.credits.kind # "object"
            THEN [NoRows EXCEPT !.raised = TRUE, !.entity = <<row>>]
            ELSE [raised |-> FALSE, entity |-> <<row>>,
                  cast |-> TvCastRows(tid, ListField(got.credits.body, "cast")),
                  crew |-> <<>>]

\* the position after the loop index moved to i in phase p
PhaseAt(p, i, movie_ids, tv_ids) ==
    IF p = "fetch_movies" /\ i <= Len(movie_ids) THEN [pc |-> "fetch_movies", i |-> i]
    ELSE IF p = "fetch_movies" /\ tv_ids # <<>> THEN [pc |-> "fetch_tv", i |-> 1]
    ELSE IF p = "fetch_tv" /\ i <= Len(tv_ids) THEN [pc |-> "fetch_tv", i |-> i]
    ELSE [pc |-> "upsert", i |-> 1]

\* the row list run passes to the k-th upsert
BatchOf(l, k) ==
    CASE k = 1 -> l.movies_rows
      [] k = 2 -> l.movie_cast_rows
      [] k = 3 -> l.movie_crew_rows
      [] k = 4 -> l.tv_rows
      [] k = 5 -> l.tv_cast_rows

\* an upsert that raised is swallowed and the run goes on
NextAfterUpsert_swallowed(k, raised) ==
    IF k < Len(Relations) THEN "upsert" ELSE "set_last_run"

\* where run goes after its k-th upsert: an exception propagates out of run
NextAfterUpsert(k, raised) ==
    IF raised THEN "raise"
    ELSE IF k < Len(Relations) THEN "upsert" ELSE "set_last_run"

\* the watermark written is the time of the write
WriteWatermark_finish_time(d, dry_run, now, current) ==
    IF ~dry_run THEN set_last_run(d, current, "weekly_update", current) ELSE d

\* the watermark is written in a dry run as well
WriteWatermark_always(d, dry_run, now, current) ==
    set_last_run(d, now, "weekly_update", current)

\* "if not dry_run: set_last_run(con, now)"
WriteWatermark(d, dry_run, now, current) ==
    IF ~dry_run THEN set_last_run(d, now, "weekly_update", current) ELSE d

\* what run has called so far when it enters the fetch loops: get_last_run
\* unless force_days is given, then call_changes for movies and for TV
StartTrace(force_days, last_run, now) ==
    (IF force_days.given THEN <<>> ELSE <<[op |-> "get_last_run"]>>)
    \o <<[op |-> "call_changes", endpoint |-> "movie", start_date |-> last_run,
          end_date |-> now],
         [op |-> "call_changes", endpoint |-> "tv", start_date |-> last_run,
          end_date |-> now]>>

\* the calls of the end of run: set_last_run(con, now) unless dry_run
EndTrace(tr, dry_run, now) ==
    IF ~dry_run THEN Append(tr, [op |-> "set_last_run", ts |-> now]) ELSE tr

\* the record of a run that ended, as completed or by an exception
Summary(outcome, upsert_raised) ==
    [op |-> "run", dry_run |-> args.dry_run, outcome |-> outcome,
     before |-> loc.before, log |-> log, upsert_raised |-> upsert_raised,
     i |-> loc.i, at |-> clock, args |-> args, now |-> loc.now,
     movie_feed |-> loc.movie_feed, tv_feed |-> loc.tv_feed, trace |-> loc.trace,
     clean |-> calls.clean /\ outcome = "completed" /\ ~args.dry_run /\ ~upsert_raised]

InitRun ==
    /\ db = FreshDb
    /\ temp = {}
    /\ previews = {}
    /\ clock = 0
    /\ pc = "idle"
    /\ args = <<>>
    /\ loc = NoLocals
    /\ log = <<>>
    /\ hist = <<>>
    /\ calls = [runs |-> 0, ids |-> 0, clean |-> TRUE]

\* run up to the fetch loops: connect, ensure_tables, last_run, now, the two
\* change lists, the sample cap
RunStart ==
    /\ pc = "idle"
    /\ calls.runs < MaxRuns
    /\ \E sample_only \in SampleCaps, force_days \in ForceDays, dry_run \in BOOLEAN,
          movie_feed \in ChangeLists(MovieIdSet, MaxChanged - calls.ids) :
       \E tv_feed \in ChangeLists(TvIdSet, MaxChanged - calls.ids - Len(movie_feed)) :
        LET d == ensure_tables(db)
            last_run == IF force_days.given THEN clock - force_days.days
                        ELSE get_last_run(d, "weekly_update", clock)
            movie_ids == Sample(movie_feed, sample_only)
            tv_ids == Sample(tv_feed, sample_only)
            at == PhaseAt("fetch_movies", 1, movie_ids, tv_ids)
        IN /\ db' = d
           /\ args' = [sample_only |-> sample_only, force_days |-> force_days,
                       dry_run |-> dry_run]
           /\ loc' = [last_run |-> last_run, now |-> clock,
                      movie_feed |-> movie_feed, tv_feed |-> tv_feed,
                      movie_ids |-> movie_ids, tv_ids |-> tv_ids, i |-> at.i,
                      movies_rows |-> <<>>, movie_cast_rows |-> <<>>,
                      movie_crew_rows |-> <<>>, tv_rows |-> <<>>, tv_cast_rows |-> <<>>,
                      before |-> db, upsert_raised |-> FALSE,
                      trace |-> StartTrace(force_days, last_run, clock)]
           /\ pc' = at.pc
           /\ calls' = [runs |-> calls.runs + 1,
                        ids |-> calls.ids + Len(movie_feed) + Len(tv_feed),
                        clean |-> hist = <<>> \/ hist[1].clean]
    /\ log' = <<>>
    /\ hist' = <<>>
    /\ UNCHANGED <<temp, previews, clock>>

\* the run ends by an exception: the locals are gone
Abort(outcome, upsert_raised) ==
    /\ pc' = "idle"
    /\ hist' = <<Summary(outcome, upsert_raised)>>
    /\ args' = <<>>
    /\ loc' = NoLocals
    /\ log' = <<>>

\* one iteration of "for i, mid in enumerate(movie_ids)"
FetchMovie ==
    /\ pc = "fetch_movies"
    /\ LET mid == loc.movie_ids[loc.i]
       IN \E detail \in MovieDetailResponses(mid),
             credits \in MovieCreditsResponses \cup {NotRequested} :
            /\ (credits = NotRequested) <=> (detail = Raises)
            /\ (detail = JsonNull) => (credits = JsonNull)
            /\ LET it == MovieIteration(mid, fetch_detail_and_credits(detail, credits))
                   at == PhaseAt("fetch_movies", loc.i + 1, loc.movie_ids, loc.tv_ids)
                   entry == [category |-> "movie", id |-> mid,
                             detail |-> detail, credits |-> credits]
               IN IF it.raised
                  THEN /\ pc' = "idle"
                       /\ hist' = <<[Summary("raised_fetch", FALSE)
                                        EXCEPT !.log = Append(log, entry)]>>
                       /\ args' = <<>>
                       /\ loc' = NoLocals
                       /\ log' = <<>>
                  ELSE /\ pc' = at.pc
                       /\ loc' = [loc EXCEPT !.i = at.i,
                                     !.movies_rows = @ \o it.entity,
                                     !.movie_cast_rows = @ \o it.cast,
                                     !.movie_crew_rows = @ \o it.crew]
                       /\ log' = Append(log, entry)
                       /\ UNCHANGED <<hist, args>>
    /\ UNCHANGED <<db, temp, previews, clock, calls>>

\* one iteration of "for i, tid in enumerate(tv_ids)"
FetchTv ==
    /\ pc = "fetch_tv"
    /\ LET tid == loc.tv_ids[loc.i]
       IN \E detail \in TvDetailResponses(tid),
             credits \in TvCreditsResponses \cup {NotRequested} :
            /\ (credits = NotRequested) <=> (detail = Raises)
            /\ (detail = JsonNull) => (credits = JsonNull)
            /\ LET it == TvIteration(tid, fetch_detail_and_credits(detail, credits))
                   at == PhaseAt("fetch_tv", loc.i + 1, loc.movie_ids, loc.tv_ids)
                   entry == [category |-> "tv", id |-> tid,
                             detail |-> detail, credits |-> credits]
               IN IF it.raised
                  THEN /\ pc' = "idle"
                       /\ hist' = <<[Summary("raised_fetch", FALSE)
                                        EXCEPT !.log = Append(log, entry)]>>
                       /\ args' = <<>>
                       /\ loc' = NoLocals
                       /\ log' = <<>>
                  ELSE /\ pc' = at.pc
                       /\ loc' = [loc EXCEPT !.i = at.i,
                                     !.tv_rows = @ \o it.entity,
                                     !.tv_cast_rows = @ \o it.cast]
                       /\ log' = Append(log, entry)
                       /\ UNCHANGED <<hist, args>>
    /\ UNCHANGED <<db, temp, previews, clock, calls>>

\* the five upserts share one transaction: when one raises, what the earlier
\* ones wrote is rolled back
UpsertStep_rollback ==
    /\ pc = "upsert"
    /\ \E fault \in Faults :
        LET table_name == Relations[loc.i]
            res == upsert_table_from_rows(db[table_name], BatchOf(loc, loc.i),
                       table_name, CanonicalCols(table_name), KeyCol(table_name),
                       args.dry_run, clock, fault)
            next == NextAfterUpsert(loc.i, res.raised)
        IN /\ temp' = temp \cup res.temp
           /\ previews' = IF res.preview
                          THEN previews \cup {[table_name |-> table_name, at |-> clock]}
                          ELSE previews
           /\ IF next = "raise"
              THEN /\ db' = [t \in DOMAIN db |->
                                IF t \in DOMAIN loc.before THEN loc.before[t] ELSE EmptyBag]
                   /\ Abort("raised_upsert", TRUE)
              ELSE /\ db' = [db EXCEPT ![table_name] = res.table]
                   /\ pc' = next
                   /\ loc' = [loc EXCEPT !.i = @ + 1,
                                 !.upsert_raised = @ \/ res.raised,
                                 !.trace = Append(@, [op |-> "upsert",
                                                      table_name |-> table_name])]
                   /\ UNCHANGED <<args, log, hist>>
    /\ UNCHANGED <<clock, calls>>

\* the k-th of the five upsert_table_from_rows calls of the upsert phase
UpsertStep ==
    /\ pc = "upsert"
    /\ \E fault \in Faults :
        LET table_name == Relations[loc.i]
            res == upsert_table_from_rows(db[table_name], BatchOf(loc, loc.i),
                       table_name, CanonicalCols(table_name), KeyCol(table_name),
                       args.dry_run, clock, fault)
            next == NextAfterUpsert(loc.i, res.raised)
        IN /\ db' = [db EXCEPT ![table_name] = res.table]
           /\ temp' = temp \cup res.temp
           /\ previews' = IF res.preview
                          THEN previews \cup {[table_name |-> table_name, at |-> clock]}
                          ELSE previews
           /\ IF next = "raise"
              THEN Abort("raised_upsert", TRUE)
              ELSE /\ pc' = next
                   /\ loc' = [loc EXCEPT !.i = @ + 1,
                                 !.upsert_raised = @ \/ res.raised,
                                 !.trace = Append(@, [op |-> "upsert",
                                                      table_name |-> table_name])]
                   /\ UNCHANGED <<args, log, hist>>
    /\ UNCHANGED <<clock, calls>>

\* a sampled run leaves the watermark alone
SetLastRunStep_full_only ==
    /\ pc = "set_last_run"
    /\ db' = WriteWatermark(db, args.dry_run \/ args.sample_only > 0, loc.now, clock)
    /\ pc' = "idle"
    /\ hist' = <<[Summary("completed", loc.upsert_raised)
                    EXCEPT !.trace = EndTrace(@, args.dry_run, loc.now)]>>
    /\ args' = <<>>
    /\ loc' = NoLocals
    /\ log' = <<>>
    /\ UNCHANGED <<temp, previews, clock, calls>>

\* the end of run: the watermark write, con.close()
SetLastRunStep ==
    /\ pc = "set_last_run"
    /\ db' = WriteWatermark(db, args.dry_run, loc.now, clock)
    /\ pc' = "idle"
    /\ hist' = <<[Summary("completed", loc.upsert_raised)
                    EXCEPT !.trace = EndTrace(@, args.dry_run, loc.now)]>>
    /\ args' = <<>>
    /\ loc' = NoLocals
    /\ log' = <<>>
    /\ UNCHANGED <<temp, previews, clock, calls>>

\* time passes between runs and while a run fetches
TickRun ==
    /\ pc = "idle" \/ (pc = "upsert" /\ loc.i = 1)
    /\ clock < MaxRunTime
    /\ clock' = clock + 1
    /\ UNCHANGED <<db, temp, previews, pc, args, loc, log, hist, calls>>

Next == RunStart \/ FetchMovie \/ FetchTv \/ UpsertStep \/ SetLastRunStep \/ TickRun

Spec == InitRun /\ [][Next]_vars

---------------------------------------------------------------------------
(* Properties of run (Spec) *)

\* the rows of table t in database d, none when d has no such table
TableOf(d, t) == IF t \in DOMAIN d THEN d[t] ELSE EmptyBag

Timestamps == {"inserted_at", "updated_at"}

EntityTable(category) == IF category = "movie" THEN "movies" ELSE "tv_shows"
CastTable(category) == IF category = "movie" THEN "movie_cast" ELSE "tv_show_cast_crew"

\* what the loop iteration of a logged fetch did
IterationOf(e) ==
    IF e.category = "movie"
    THEN MovieIteration(e.id, fetch_detail_and_credits(e.detail, e.credits))
    ELSE TvIteration(e.id, fetch_detail_and_credits(e.detail, e.credits))

\* the iteration appended an entity row
Appended(e) == ~IterationOf(e).raised /\ IterationOf(e).entity # <<>>

\* a response that is the payload asked for: an object, not an error object
Obtained(r) == r.kind = "object" /\ r # ErrorPayload /\ DOMAIN r.body # {}
BothObtained(e) == Obtained(e.detail) /\ Obtained(e.credits)

\* the row lists run holds for a category: entity rows, cast rows, crew rows
EntityBatch(l, category) == IF category = "movie" THEN l.movies_rows ELSE l.tv_rows
CastBatch(l, category) == IF category = "movie" THEN l.movie_cast_rows ELSE l.tv_cast_rows

\* no row of identifier e.id is in any row list run will upsert
NoRowFor(l, e) ==
    /\ \A k \in DOMAIN EntityBatch(l, e.category) :
          EntityBatch(l, e.category)[k]["id"] # IntV(e.id)
    /\ \A k \in DOMAIN CastBatch(l, e.category) :
          CastBatch(l, e.category)[k][KeyCol(CastTable(e.category))] # IntV(e.id)
    /\ e.category = "movie" =>
          \A k \in DOMAIN l.movie_crew_rows : l.movie_crew_rows[k]["movie_id"] # IntV(e.id)

\* the stored rows of a table under key value v, without the two timestamps
StoredFor(d, table_name, v) ==
    DropCols(RowsWithKey(d[table_name], KeyCol(table_name), {v}), Timestamps)

\* the rows a list of built rows is stored as
AsStored(rows, table_name) ==
    BagOfSeq(Normalize(rows, table_name, CanonicalCols(table_name)))

\* C3: after successful non-dry runs only, for every entity the latest run
\* fetched detail and credits of, the stored credit rows are exactly the
\* credit entries of that fetch, also when the fetched list is empty.
C3_CreditsAreLatestFetch ==
    (pc = "idle" /\ hist # <<>> /\ hist[1].clean) =>
        \A k \in DOMAIN hist[1].log :
            LET e == hist[1].log[k]
                it == IterationOf(e)
            IN (Appended(e) /\ BothObtained(e)) =>
                /\ StoredFor(db, CastTable(e.category), IntV(e.id))
                      = AsStored(it.cast, CastTable(e.category))
                /\ e.category = "movie" =>
                      StoredFor(db, "movie_crew", IntV(e.id))
                          = AsStored(it.crew, "movie_crew")

\* C4: when the upsert phase starts, an identifier has rows in the row lists
\* only if both its detail and its credits payload were obtained, and then
\* its entity row is among them.
C4_DetailAndCreditsOrNothing ==
    pc = "upsert" =>
        \A k \in DOMAIN log :
            LET e == log[k]
            IN IF BothObtained(e)
               THEN \E j \in DOMAIN EntityBatch(loc, e.category) :
                        EntityBatch(loc, e.category)[j]["id"] = IntV(e.id)
               ELSE \/ NoRowFor(loc, e)
                    \/ \E j \in DOMAIN log :
                          /\ log[j].category = e.category /\ log[j].id = e.id
                          /\ BothObtained(log[j])

\* the fetches of a log whose detail request was answered with an error
\* object, the identifier not fetched with another answer in the same run
ErrorDetails(lg) ==
    {k \in DOMAIN lg :
        /\ lg[k].detail = ErrorPayload
        /\ \A j \in DOMAIN lg :
              (lg[j].category = lg[k].category /\ lg[j].id = lg[k].id)
                  => lg[j].detail = ErrorPayload}

\* C5: an identifier whose detail request is answered with an upstream error
\* object adds no row to the movies / tv_shows row list, and the row stored
\* for it is the same after the run as before.
C5_ErrorDetailSkipped ==
    /\ pc = "upsert" =>
          \A k \in ErrorDetails(log) :
              \A j \in DOMAIN EntityBatch(loc, log[k].category) :
                  EntityBatch(loc, log[k].category)[j]["id"] # IntV(log[k].id)
    /\ (pc = "idle" /\ hist # <<>>) =>
          \A k \in ErrorDetails(hist[1].log) :
              LET e == hist[1].log[k]
                  t == EntityTable(e.category)
              IN RowsWithKey(db[t], "id", {IntV(e.id)})
                    = RowsWithKey(TableOf(hist[1].before, t), "id", {IntV(e.id)})

\* C6: no failure on one identifier raises out of the fetch loops: a run
\* never ends by an exception of the fetch phase.
C6_FetchNeverRaises ==
    ~(pc = "idle" /\ hist # <<>> /\ hist[1].outcome = "raised_fetch")

\* C7: set_last_run runs only after all five upserts returned without error;
\* a run in which an upsert raised leaves last_updates as it was.
C7_NoWatermarkAfterFailedUpsert ==
    /\ pc = "set_last_run" => (loc.i = Len(Relations) + 1 /\ ~loc.upsert_raised)
    /\ pc \in {"fetch_movies", "fetch_tv", "upsert", "set_last_run"} =>
          db["last_updates"] = TableOf(loc.before, "last_updates")
    /\ (pc = "idle" /\ hist # <<>> /\ hist[1].upsert_raised) =>
          /\ db["last_updates"] = TableOf(hist[1].before, "last_updates")
          /\ get_last_run(db, "weekly_update", clock)
                = get_last_run(ensure_tables(hist[1].before), "weekly_update", clock)

\* a run that had a watermark entry before it wrote movies rows and then
\* ended by an upsert raising
C7_Witness ==
    /\ pc = "idle" /\ hist # <<>>
    /\ hist[1].upsert_raised /\ hist[1].outcome = "raised_upsert"
    /\ TableOf(hist[1].before, "last_updates") # EmptyBag
    /\ db["movies"] # TableOf(hist[1].before, "movies")

\* C9: a dry run deletes and inserts no row of the five relations and adds
\* no entry to last_updates, whatever was fetched; the watermark the next run
\* reads is the one before the dry run.
C9_DryRunWritesNoRow ==
    /\ (pc \in {"fetch_movies", "fetch_tv", "upsert", "set_last_run"} /\ args.dry_run) =>
          \A t \in Tables : db[t] = TableOf(loc.before, t)
    /\ (pc = "idle" /\ hist # <<>> /\ hist[1].dry_run) =>
          /\ \A t \in Tables : db[t] = TableOf(hist[1].before, t)
          /\ get_last_run(db, "weekly_update", clock)
                = get_last_run(ensure_tables(hist[1].before), "weekly_update", clock)

\* a dry run completed that had fetched an entity already stored, with a
\* watermark entry present, and wrote its previews
C9_Witness ==
    /\ pc = "idle" /\ hist # <<>>
    /\ hist[1].dry_run /\ hist[1].outcome = "completed"
    /\ previews # {}
    /\ db["last_updates"] # EmptyBag
    /\ \E k \in DOMAIN hist[1].log :
          LET e == hist[1].log[k]
          IN /\ Appended(e)
             /\ RowsWithKey(db[EntityTable(e.category)], "id", {IntV(e.id)}) # EmptyBag

---------------------------------------------------------------------------
(* Timestamps of an entity relation over a sequence of upserts: the calls  *)
(* of upsert_table_from_rows on movies or tv_shows, with for every         *)
(* identifier the time of the first call that stored it and of the latest  *)
(* call that wrote it.                                                     *)

MaxStampCalls == 3

EntityRelations == {"movies", "tv_shows"}

\* the identifiers a table holds
StoredIds(T) == {r["id"] : r \in DOMAIN T}

InitStamps ==
    /\ db = ensure_tables(FreshDb)
    /\ temp = {}
    /\ previews = {}
    /\ clock = 0
    /\ pc = "stamps"
    /\ \E r \in EntityRelations : args = [table_name |-> r]
    /\ loc = [first |-> <<>>, latest |-> <<>>]
    /\ log = <<>>
    /\ hist = <<>>
    /\ calls = 0

\* one call upsert_table_from_rows(con, rows, table_name, cols, 'id', dry_run)
\* on an entity relation; loc.first and loc.latest follow what the calls did
EntityUpsertCall ==
    /\ pc = "stamps"
    /\ calls < MaxStampCalls
    /\ \E rows \in SeqUpTo(RowUniverse(args.table_name), MaxBatch),
          dry_run \in BOOLEAN, fault \in Faults :
        LET table_name == args.table_name
            res == upsert_table_from_rows(db[table_name], rows, table_name,
                       CanonicalCols(table_name), KeyCol(table_name),
                       dry_run, clock, fault)
            wrote == ~dry_run /\ ~res.raised /\ rows # <<>>
            written == IF wrote THEN {rows[k]["id"] : k \in DOMAIN rows} ELSE {}
            fresh == StoredIds(res.table) \ DOMAIN loc.first
        IN /\ db' = [db EXCEPT ![table_name] = res.table]
           /\ temp' = temp \cup res.temp
           /\ previews' = IF res.preview
                          THEN previews \cup {[table_name |-> table_name, at |-> clock]}
                          ELSE previews
           /\ loc' = [first |-> [k \in fresh |-> clock] @@ loc.first,
                      latest |-> [k \in written |-> clock] @@ loc.latest]
    /\ calls' = calls + 1
    /\ UNCHANGED <<clock, pc, args, log, hist>>

NextStamps == EntityUpsertCall \/ Tick

SpecStamps == InitStamps /\ [][NextStamps]_vars

\* C11: in an entity relation the inserted_at of a stored identifier is the
\* time of the first upsert that stored it, and its updated_at the time of
\* the most recent upsert that wrote it.
C11_InsertedAtIsFirstStore ==
    pc = "stamps" =>
        \A r \in DOMAIN db[args.table_name] :
            /\ r["id"] \in DOMAIN loc.first
            /\ r["inserted_at"] = loc.first[r["id"]]
            /\ r["id"] \in DOMAIN loc.latest
            /\ r["updated_at"] = loc.latest[r["id"]]

---------------------------------------------------------------------------
(* call_changes(endpoint, start_date, end_date, max_pages): the pagination *)
(* loop against an upstream that answers every request as it likes.        *)

MaxRequests == 5
MaxTotalPages == 3

\* values of the max_pages argument
MaxPagesArgs == {1, 2}

Endpoints == {"movie", "tv"}
FeedIds(endpoint) == IF endpoint = "movie" THEN MovieIdSet ELSE TvIdSet

\* data['results'] of one page: entries with an 'id' and entries without
ChangeResults(endpoint) ==
    {<<>>}
    \cup {<<[id |-> i]>> : i \in FeedIds(endpoint)}
    \cup {<<[id |-> i], [id |-> i]>> : i \in FeedIds(endpoint)}
    \cup {<<[adult |-> FALSE], [id |-> i]>> : i \in FeedIds(endpoint)}

\* data['total_pages']: absent, a page count of at least one, or a value
\* int() does not accept
TotalPagesValues == {NULL, StrV("many")} \cup {IntV(n) : n \in 1 .. MaxTotalPages}

\* what one requests.get / raise_for_status / resp.json() can come to
PageResponses(endpoint) ==
    {[kind |-> "ok", results |-> r, total_pages |-> t] :
        r \in ChangeResults(endpoint), t \in TotalPagesValues}
    \cup {[kind |-> k, results |-> <<>>, total_pages |-> NULL] :
            k \in {"rate_limited", "http_error", "connection_error", "undecodable"}}

\* [r['id'] for r in results if 'id' in r]
RECURSIVE IdsIn(_)
IdsIn(results) ==
    IF results = <<>> THEN <<>>
    ELSE (IF "id" \in DOMAIN Head(results) THEN <<Head(results).id>> ELSE <<>>)
         \o IdsIn(Tail(results))

\* the try body on a decoded page: ids.extend, then the break test, then
\* page += 1 and the while test; int(total_pages) raises on a string and the
\* except branch breaks
OnOk_page_past_total(l, resp, max_pages) ==
    LET ids == l.ids \o IdsIn(resp.results)
        total_pages == IF resp.total_pages = NULL THEN 1 ELSE resp.total_pages.n
    IN IF resp.total_pages.t = "str"
       THEN [page |-> l.page, ids |-> ids, done |-> TRUE]
       ELSE IF resp.results = <<>> \/ l.page > total_pages
       THEN [page |-> l.page, ids |-> ids, done |-> TRUE]
       ELSE [page |-> l.page + 1, ids |-> ids, done |-> l.page + 1 > max_pages]

OnOk(l, resp, max_pages) ==
    LET ids == l.ids \o IdsIn(resp.results)
        total_pages == IF resp.total_pages = NULL THEN 1 ELSE resp.total_pages.n
    IN IF resp.total_pages.t = "str"
       THEN [page |-> l.page, ids |-> ids, done |-> TRUE]
       ELSE IF resp.results = <<>> \/ l.page >= total_pages
       THEN [page |-> l.page, ids |-> ids, done |-> TRUE]
       ELSE [page |-> l.page + 1, ids |-> ids, done |-> l.page + 1 > max_pages]

\* a failed request throws the accumulated identifiers away
OnResponse_discards(l, resp, max_pages) ==
    IF resp.kind = "ok" THEN OnOk(l, resp, max_pages)
    ELSE IF resp.kind = "rate_limited"
    THEN [page |-> l.page, ids |-> l.ids, done |-> FALSE]
    ELSE [page |-> l.page, ids |-> <<>>, done |-> TRUE]

\* one pass of the while body on response resp, from locals l = [page, ids]:
\* the locals after it and whether the loop is left.  A 429 continues with
\* the same page; any other failure breaks.
OnResponse(l, resp, max_pages) ==
    IF resp.kind = "ok" THEN OnOk(l, resp, max_pages)
    ELSE IF resp.kind = "rate_limited"
    THEN [page |-> l.page, ids |-> l.ids, done |-> FALSE]
    ELSE [page |-> l.page, ids |-> l.ids, done |-> TRUE]

InitChanges ==
    /\ db = FreshDb
    /\ temp = {}
    /\ previews = {}
    /\ clock = 0
    /\ pc = "idle"
    /\ args = <<>>
    /\ loc = NoLocals
    /\ log = <<>>
    /\ hist = <<>>
    /\ calls = 0

\* call_changes is entered: page = 1, ids = []
CallChanges ==
    /\ pc = "idle"
    /\ calls = 0
    /\ \E endpoint \in Endpoints, max_pages \in MaxPagesArgs :
        /\ args' = [endpoint |-> endpoint, max_pages |-> max_pages]
        /\ pc' = IF 1 <= max_pages THEN "request" ELSE "returned"
    /\ loc' = [page |-> 1, ids |-> <<>>]
    /\ log' = <<>>
    /\ calls' = 1
    /\ UNCHANGED <<db, temp, previews, clock, hist>>

\* one pass of the while loop: the request for loc.page and what follows
\* its answer; log keeps the requests issued, in order
RequestPage ==
    /\ pc = "request"
    /\ Len(log) < MaxRequests
    /\ \E resp \in PageResponses(args.endpoint) :
        LET n == OnResponse(loc, resp, args.max_pages)
        IN /\ log' = Append(log, [page |-> loc.page, resp |-> resp])
           /\ loc' = [page |-> n.page, ids |-> n.ids]
           /\ pc' = IF n.done THEN "returned" ELSE "request"
           /\ hist' = IF n.done
                      THEN <<[op |-> "call_changes", result |-> n.ids, raised |-> FALSE]>>
                      ELSE hist
    /\ UNCHANGED <<db, temp, previews, clock, args, calls>>

NextChanges == CallChanges \/ RequestPage

SpecChanges == InitChanges /\ [][NextChanges]_vars

---------------------------------------------------------------------------
(* Properties of call_changes (SpecChanges) *)

\* the identifiers of a sequence of logged requests, in order
RECURSIVE ConcatIds(_)
ConcatIds(lg) ==
    IF lg = <<>> THEN <<>>
    ELSE IdsIn(Head(lg).resp.results) \o ConcatIds(Tail(lg))

\* the page count a decoded page reports
Reported(e) == IF e.resp.total_pages = NULL THEN 1 ELSE e.resp.total_pages.n

\* the request was answered with a page the loop could use
Succeeded(e) == e.resp.kind = "ok" /\ e.resp.total_pages.t # "str"

RateLimited(e) == e.resp.kind = "rate_limited"

\* failures other than a rate limit: HTTP error status, connection error,
\* undecodable body
FailureKinds == {"http_error", "connection_error", "undecodable"}

\* C12: the number of requests call_changes issues is bounded by a fixed cap,
\* whatever the upstream answers: at most max_pages pages, each requested
\* at most twice.
C12_RequestsBounded ==
    pc \in {"request", "returned"} => Len(log) <= 2 * args.max_pages

\* C13: a 429 for page p is followed by one more request of page p, and after
\* a second 429 in a row page p is not requested a third time.
C13_RetriedOnce ==
    pc \in {"request", "returned"} =>
        \A k \in DOMAIN log :
            /\ (RateLimited(log[k]) /\ k + 1 \in DOMAIN log) =>
                  log[k + 1].page = log[k].page
            /\ (RateLimited(log[k]) /\ k + 2 \in DOMAIN log
                    /\ RateLimited(log[k + 1]) /\ log[k + 1].page = log[k].page) =>
                  log[k + 2].page # log[k].page

\* C14: when the request for page p fails other than by a rate limit, no
\* further request is made and call_changes returns, without raising, the
\* identifiers of pages 1..p-1 in order.
C14_FailureKeepsPartial ==
    (pc \in {"request", "returned"} /\ log # <<>>) =>
        /\ \A k \in 1 .. Len(log) - 1 : log[k].resp.kind \notin FailureKinds
        /\ log[Len(log)].resp.kind \in FailureKinds =>
              LET p == log[Len(log)].page
                  oks == SelectSeq(log, LAMBDA e : e.resp.kind = "ok")
              IN /\ pc = "returned"
                 /\ hist # <<>> /\ ~hist[1].raised
                 /\ hist[1].result = ConcatIds(oks)
                 /\ [k \in DOMAIN oks |-> oks[k].page] = [k \in 1 .. p - 1 |-> k]

\* the request for page 2 failed after a rate limit, page 1 having brought
\* identifiers
C14_Witness ==
    /\ pc = "returned" /\ Len(log) >= 3
    /\ log[Len(log)].resp.kind \in FailureKinds
    /\ log[Len(log)].page = 2
    /\ \E k \in DOMAIN log : RateLimited(log[k])
    /\ hist # <<>> /\ hist[1].result # <<>>

\* C15: when every request succeeds, pages 1, 2, ... are requested in order,
\* each once, none beyond max_pages or the page count reported, and the loop
\* stops only at an empty page, at the reported page count or at max_pages;
\* the result is the identifiers of the pages requested, in feed order.
C15_AllPagesInOrder ==
    (pc \in {"request", "returned"} /\ \A k \in DOMAIN log : Succeeded(log[k])) =>
        /\ \A k \in DOMAIN log :
              /\ log[k].page = k
              /\ log[k].page <= args.max_pages
              /\ k > 1 => /\ log[k].page <= Reported(log[k - 1])
                          /\ log[k - 1].resp.results # <<>>
        /\ pc = "request" => (loc.page = Len(log) + 1 /\ loc.ids = ConcatIds(log))
        /\ (pc = "returned" /\ log # <<>>) =>
              LET e == log[Len(log)]
              IN /\ hist # <<>> /\ hist[1].result = ConcatIds(log)
                 /\ \/ e.resp.results = <<>>
                    \/ Len(log) >= Reported(e)
                    \/ Len(log) >= args.max_pages

\* two pages were fetched and the loop stopped at max_pages with more pages
\* reported
C15_Witness ==
    /\ pc = "returned" /\ Len(log) = 2
    /\ \A k \in DOMAIN log : Succeeded(log[k])
    /\ Reported(log[2]) > args.max_pages
    /\ hist # <<>> /\ Len(hist[1].result) >= 2

---------------------------------------------------------------------------
(* Further properties of run (Spec) *)

InRun == pc \in {"fetch_movies", "fetch_tv", "upsert", "set_last_run"}

\* no two rows of a row list carry the same id
DistinctIds(rows) ==
    \A j, k \in DOMAIN rows : j # k => rows[j]["id"] # rows[k]["id"]

\* C16: within one run each distinct identifier of the change feed is fetched
\* at most once and has at most one row in the movies / tv_shows row list,
\* also when the feed lists it more than once.
C16_FeedUsedAsSet ==
    InRun =>
        /\ \A j, k \in DOMAIN log :
              (j # k /\ log[j].category = log[k].category) => log[j].id # log[k].id
        /\ DistinctIds(loc.movies_rows)
        /\ DistinctIds(loc.tv_rows)


\* the canonical columns of a payload: the field's value, lists and maps as
\* text, and null for a column the payload does not have
CanonicalProjection(body, cols) ==
    [c \in Range(cols) |-> IF c \in DOMAIN body THEN Stringify(body[c]) ELSE NULL]

\* the fetches of a category that appended an entity row, in loop order
AppendedOf(lg, category) ==
    SelectSeq(lg, LAMBDA e : e.category = category /\ Appended(e))

\* C17: every entity row handed to the upsert, and every stored one, has
\* exactly the canonical columns; a canonical column the payload lacks is
\* null and no other payload field is stored.
C17_ExactlyCanonicalColumns ==
    /\ InRun =>
          \A category \in {"movie", "tv"} :
              LET es == AppendedOf(log, category)
                  rows == EntityBatch(loc, category)
                  cols == CanonicalCols(EntityTable(category))
              IN /\ Len(rows) = Len(es)
                 /\ \A j \in DOMAIN rows :
                       rows[j] = CanonicalProjection(es[j].detail.body, cols)
    /\ \A t \in {"movies", "tv_shows"} :
          \A r \in DOMAIN TableOf(db, t) :
              DOMAIN r = Range(CanonicalCols(t)) \cup Timestamps

---------------------------------------------------------------------------
(* The date guard: one entity payload with a given release_date or         *)
(* last_air_date value, built into a row as run does and upserted.         *)

YearParts == {"0000", "2020", "2023", "2024"}
MonthParts == {"00", "01", "02", "04", "12", "13"}
DayParts == {"00", "01", "28", "29", "30", "31", "32"}

\* values the upstream sends in a date field
DateStrings ==
    {y \o "-" \o m \o "-" \o d : y \in YearParts, m \in MonthParts, d \in DayParts}
    \cup {"", "not a date", "2020/01/15", "15-01-2020"}

DateInputs == {StrV(x) : x \in DateStrings} \cup {NULL, ListV("[]")}

DateCol(table_name) == IF table_name = "movies" THEN "release_date" ELSE "last_air_date"

\* the detail payload of entity id with the date field set to value
DatedDetail(table_name, id, value) ==
    IF table_name = "movies"
    THEN [MovieDetail(id, "A").body EXCEPT !["release_date"] = value]
    ELSE [TvDetail(id, "A").body EXCEPT !["last_air_date"] = value]

InitDates ==
    /\ db = ensure_tables(FreshDb)
    /\ temp = {}
    /\ previews = {}
    /\ clock = 0
    /\ pc = "dates"
    /\ \E r \in EntityRelations, value \in DateInputs :
          args = [table_name |-> r, value |-> value]
    /\ loc = NoLocals
    /\ log = <<>>
    /\ hist = <<>>
    /\ calls = 0

\* the row of the payload is built and upserted into its relation
DateUpsert ==
    /\ pc = "dates"
    /\ \E id \in FeedIds(IF args.table_name = "movies" THEN "movie" ELSE "tv") :
        LET table_name == args.table_name
            row == EntityRow(id, DatedDetail(table_name, id, args.value),
                             CanonicalCols(table_name))
            res == upsert_table_from_rows(db[table_name], <<row>>, table_name,
                       CanonicalCols(table_name), KeyCol(table_name),
                       FALSE, clock, "none")
        IN /\ db' = [db EXCEPT ![table_name] = res.table]
           /\ temp' = temp \cup res.temp
           /\ hist' = <<[op |-> "upsert", table_name |-> table_name,
                         raised |-> res.raised]>>
    /\ pc' = "stored"
    /\ calls' = calls + 1
    /\ UNCHANGED <<previews, clock, args, loc, log>>

NextDates == DateUpsert

SpecDates == InitDates /\ [][NextDates]_vars

\* n as two decimal digits
Pad2(n) == IF n < 10 THEN "0" \o ToString(n) ELSE ToString(n)

\* the YYYY-MM-DD strings of the calendar days of the years 1 and 2020..2024
CalendarDates ==
    {z \o "-" \o Pad2(m) \o "-" \o Pad2(d) :
        z \in {"0001", "2020", "2021", "2022", "2023", "2024"},
        m \in 1 .. 12, d \in 1 .. 31}
    \ ({z \o "-" \o m \o "-31" : z \in {"0001", "2020", "2021", "2022", "2023", "2024"},
                                 m \in {"02", "04", "06", "09", "11"}}
       \cup {z \o "-02-30" : z \in {"0001", "2020", "2021", "2022", "2023", "2024"}}
       \cup {z \o "-02-29" : z \in {"0001", "2021", "2022", "2023"}})

RECURSIVE RowsFromLog(_, _)
RowsFromLog(lg, k) ==
    IF lg = <<>> THEN <<>>
    ELSE LET e == Head(lg)
             it == IterationOf(e)
             part == CASE k = 1 -> IF e.category = "movie" THEN it.entity ELSE <<>>
                       [] k = 2 -> IF e.category = "movie" THEN it.cast ELSE <<>>
                       [] k = 3 -> IF e.category = "movie" THEN it.crew ELSE <<>>
                       [] k = 4 -> IF e.category = "tv" THEN it.entity ELSE <<>>
                       [] k = 5 -> IF e.category = "tv" THEN it.cast ELSE <<>>
         IN part \o RowsFromLog(Tail(lg), k)

\* what the j-th upsert of the run recorded in h wrote into its relation
WrittenBy(h, j) ==
    upsert_table_from_rows(TableOf(h.before, Relations[j]), RowsFromLog(h.log, j),
        Relations[j], CanonicalCols(Relations[j]), KeyCol(Relations[j]),
        h.dry_run, h.at, "none").table

\* C19: when the k-th upsert raises, the error leaves run, the relations
\* upserted before it hold what this run wrote, and the relations after it
\* are as they were before the run.
C19_FailedUpsertLeavesOthers ==
    /\ InRun => ~loc.upsert_raised
    /\ (pc = "idle" /\ hist # <<>> /\ hist[1].upsert_raised) =>
          /\ hist[1].outcome = "raised_upsert"
          /\ \A j \in DOMAIN Relations :
                /\ j < hist[1].i => db[Relations[j]] = WrittenBy(hist[1], j)
                /\ j > hist[1].i =>
                      db[Relations[j]] = TableOf(hist[1].before, Relations[j])

\* the upsert of tv_shows raised after movies rows had been written, with
\* rows waiting for tv_show_cast_crew
C19_Witness ==
    /\ pc = "idle" /\ hist # <<>>
    /\ hist[1].outcome = "raised_upsert" /\ hist[1].i = 4
    /\ ~hist[1].dry_run
    /\ db["movies"] # TableOf(hist[1].before, "movies")
    /\ RowsFromLog(hist[1].log, 5) # <<>>

---------------------------------------------------------------------------
(* Further properties of the upsert engine (SpecUpsert) *)

\* C20: the delete and the insert of one upsert are atomic: after a call
\* that raised, the relation holds, for every key of the batch, the rows it
\* held before the call.
C20_DeleteInsertAtomic ==
    (hist # <<>> /\ hist[1].op = "upsert" /\ hist[1].raised) =>
        LET h == hist[1]
            key == KeyCol(h.table_name)
            tmp_df == Normalize(h.rows, h.table_name, CanonicalCols(h.table_name))
        IN \A k \in BatchKeys(tmp_df, key) :
              RowsWithKey(h.after, key, {k}) = RowsWithKey(h.before, key, {k})

---------------------------------------------------------------------------
(* The calls of a run, in order (Spec) *)

\* the run that ended last
Ended == pc = "idle" /\ hist # <<>>

\* how many calls named name the trace holds, and where
CallsOf(tr, name) == {k \in DOMAIN tr : tr[k].op = name}

\* the rows the run that ended last added to last_updates
WatermarkRowsAdded ==
    BagCardinality(TableOf(db, "last_updates"))
    - BagCardinality(TableOf(hist[1].before, "last_updates"))

\* the watermark write is the last call, after all five upserts
WrittenAfterUpserts(tr) ==
    /\ WatermarkRowsAdded = 1
    /\ CallsOf(tr, "set_last_run") = {Len(tr)}
    /\ Cardinality(CallsOf(tr, "upsert")) = Len(Relations)

\* the watermark read is the first call, before both change requests
ReadOnceFirst(tr) ==
    /\ CallsOf(tr, "get_last_run") = {1}
    /\ \A k \in CallsOf(tr, "call_changes") : k > 1

\* C21 as stated: every run that returns and is not a dry run reads the
\* watermark exactly once, before the change feed is queried, whatever its
\* flags, and writes it exactly once, after the last upsert; a dry run never
\* writes it.
C21_ReadOnceWhateverFlags ==
    (Ended /\ hist[1].outcome = "completed") =>
        IF hist[1].args.dry_run THEN WatermarkRowsAdded = 0
        ELSE ReadOnceFirst(hist[1].trace) /\ WrittenAfterUpserts(hist[1].trace)

\* C21: a run reads the watermark exactly once, before the change feed is
\* queried, when no forced lookback is given, and not at all when one is
\* given; a run that returns and is not a dry run writes it exactly once,
\* after the last upsert; a dry run and a run ended by an exception never
\* write it.
C21_ReadUnlessForcedWriteOnce ==
    Ended =>
        LET h == hist[1]
        IN /\ IF h.args.force_days.given
              THEN CallsOf(h.trace, "get_last_run") = {}
              ELSE ReadOnceFirst(h.trace)
           /\ IF h.outcome = "completed" /\ ~h.args.dry_run
              THEN WrittenAfterUpserts(h.trace)
              ELSE WatermarkRowsAdded = 0

\* a forced run that is not a dry run returned: it wrote and did not read
C21_Witness ==
    /\ Ended
    /\ hist[1].outcome = "completed"
    /\ ~hist[1].args.dry_run
    /\ hist[1].args.force_days.given
    /\ WatermarkRowsAdded = 1
    /\ CallsOf(hist[1].trace, "get_last_run") = {}
    /\ hist[1].log # <<>>

\* the rows of relation t that the run recorded in h added or removed
ChangedRows(h, t) ==
    {r \in DOMAIN TableOf(db, t) \cup DOMAIN TableOf(h.before, t) :
        CopiesIn(r, TableOf(db, t)) # CopiesIn(r, TableOf(h.before, t))}

CategoryOf(t) == IF t \in {"movies", "movie_cast", "movie_crew"} THEN "movie" ELSE "tv"

\* the identifiers of a category some fetch of the log obtained in full
SucceededIds(lg, category) ==
    {IntV(lg[k].id) : k \in {j \in DOMAIN lg :
                                lg[j].category = category /\ BothObtained(lg[j])}}

\* the watermark rows the run recorded in h added
WatermarkRows(h) == ChangedRows(h, "last_updates")

\* C22: a run that is not a dry run and in which some fetch fails returns,
\* adds one watermark row holding its now, changes rows of the five relations
\* only for identifiers whose fetch succeeded, and records the failed
\* identifiers nowhere.
C22_FailedFetchesSkipped ==
    (/\ Ended
     /\ ~hist[1].args.dry_run
     /\ hist[1].outcome # "raised_upsert"
     /\ \E k \in DOMAIN hist[1].log : ~BothObtained(hist[1].log[k])) =>
        LET h == hist[1]
        IN /\ h.outcome = "completed"
           /\ WatermarkRowsAdded = 1
           /\ \A r \in WatermarkRows(h) :
                 r.job_name = "weekly_update" /\ r.last_run = DateTime(h.now)
           /\ DOMAIN db = Tables
           /\ \A j \in DOMAIN Relations :
                 \A r \in ChangedRows(h, Relations[j]) :
                     r[KeyCol(Relations[j])]
                         \in SucceededIds(h.log, CategoryOf(Relations[j]))

\* C23: a dry run writes nothing: the schema and the contents of the
\* database are, during the run and after it, what they were before it.
C23_DryRunWritesNothing ==
    /\ (InRun /\ args.dry_run) => db = loc.before
    /\ (Ended /\ hist[1].args.dry_run) => db = hist[1].before

\* the first n elements of ids, all of them when n = 0
FirstN(ids, n) ==
    [k \in 1 .. (IF n > 0 /\ n < Len(ids) THEN n ELSE Len(ids)) |-> ids[k]]

\* the identifiers fetched, in the order of the fetches
FetchedIds(lg) == [k \in DOMAIN lg |-> lg[k].id]

\* the identifiers a run with these feeds and this cap is to fetch
ToFetch(movie_feed, tv_feed, n) == FirstN(movie_feed, n) \o FirstN(tv_feed, n)

IsPrefix(a, b) == Len(a) <= Len(b) /\ a = SubSeq(b, 1, Len(a))

\* C24: with a sample cap N > 0 a run fetches the first min(N, count)
\* identifiers of the movie list and of the TV list, in feed order, and no
\* other; with N = 0 it fetches every changed identifier.
C24_SampleCapSelectsPrefix ==
    /\ InRun =>
          /\ IsPrefix(FetchedIds(log),
                      ToFetch(loc.movie_feed, loc.tv_feed, args.sample_only))
          /\ pc \in {"upsert", "set_last_run"} =>
                FetchedIds(log) = ToFetch(loc.movie_feed, loc.tv_feed, args.sample_only)
    /\ Ended =>
          FetchedIds(hist[1].log)
              = ToFetch(hist[1].movie_feed, hist[1].tv_feed, hist[1].args.sample_only)

\* C29: the watermark a run writes is the now it took before it queried the
\* change feed, the end of the window of both change requests, and not the
\* time at which the run finished.
C29_WatermarkIsWindowEnd ==
    (Ended /\ hist[1].outcome = "completed" /\ ~hist[1].args.dry_run) =>
        LET h == hist[1]
            requests == CallsOf(h.trace, "call_changes")
        IN /\ {h.trace[k].endpoint : k \in requests} = {"movie", "tv"}
           /\ Cardinality(requests) = 2
           /\ WatermarkRowsAdded = 1
           /\ \A r \in WatermarkRows(h) : \A k \in requests :
                 r.last_run = DateTime(h.trace[k].end_date)
           /\ \A k \in requests : h.trace[k].end_date <= h.at

\* a run wrote its watermark after the clock had moved on from its now
C29_Witness ==
    /\ Ended
    /\ hist[1].outcome = "completed" /\ ~hist[1].args.dry_run
    /\ hist[1].log # <<>>
    /\ hist[1].now < hist[1].at
    /\ \E r \in WatermarkRows(hist[1]) : r.last_run = DateTime(hist[1].now)

\* the identifiers of a feed that only occur after its first n
Beyond(feed, n) ==
    {feed[k] : k \in {j \in DOMAIN feed : j > n}}
    \ {feed[k] : k \in {j \in DOMAIN feed : j <= n}}

FeedOf(h, category) == IF category = "movie" THEN h.movie_feed ELSE h.tv_feed

\* C30: a run with a sample cap N > 0 that is not a dry run writes the
\* watermark at its end as a full run does, though the identifiers beyond the
\* first N were not fetched and their rows are as they were.
C30_SampledRunWritesWatermark ==
    (/\ Ended
     /\ hist[1].outcome = "completed"
     /\ ~hist[1].args.dry_run
     /\ hist[1].args.sample_only > 0) =>
        LET h == hist[1]
        IN /\ WatermarkRowsAdded = 1
           /\ \A r \in WatermarkRows(h) :
                 r.job_name = "weekly_update" /\ r.last_run = DateTime(h.now)
           /\ \A k \in DOMAIN h.log :
                 h.log[k].id \notin
                     Beyond(FeedOf(h, h.log[k].category), h.args.sample_only)
           /\ \A j \in DOMAIN Relations :
                 \A r \in ChangedRows(h, Relations[j]) :
                     \A id \in Beyond(FeedOf(h, CategoryOf(Relations[j])),
                                      h.args.sample_only) :
                         r[KeyCol(Relations[j])] # IntV(id)

\* a run capped at one identifier left a changed movie unfetched and wrote
\* the watermark
C30_Witness ==
    /\ Ended
    /\ hist[1].outcome = "completed" /\ ~hist[1].args.dry_run
    /\ hist[1].args.sample_only = 1
    /\ Beyond(hist[1].movie_feed, 1) # {}
    /\ ChangedRows(hist[1], "movies") # {}
    /\ WatermarkRowsAdded = 1

---------------------------------------------------------------------------
(* The frame of one upsert (SpecUpsert) *)

\* the key values of the batch of a recorded call
KeysOfBatch(h) ==
    BatchKeys(Normalize(h.rows, h.table_name, CanonicalCols(h.table_name)),
              KeyCol(h.table_name))

\* the stored rows of a recorded call, before or after, with a key value
\* that is not in its batch
OtherKeyRows(h) ==
    {r \in DOMAIN h.before \cup DOMAIN h.after :
        r[KeyCol(h.table_name)] \notin KeysOfBatch(h)}

\* C28: a call of upsert_table_from_rows, returning or raising, leaves every
\* stored row whose key value is not in the batch as it was, timestamps
\* included, leaves the other four relations and last_updates as they were,
\* and leaves neither tmp_df nor old_inserted_at in the connection.
C28_UpsertFrame ==
    [][calls' # calls =>
          LET h == hist'[1]
          IN /\ h.before = db[h.table_name] /\ h.after = db'[h.table_name]
             /\ \A r \in OtherKeyRows(h) :
                   CopiesIn(r, h.after) = CopiesIn(r, h.before)
             /\ \A t \in DOMAIN db \ {h.table_name} : db'[t] = db[t]
             /\ DOMAIN db' = DOMAIN db
             /\ temp' \cap {"tmp_df", "old_inserted_at"} = {}]_vars

\* a call that wrote replaced the rows of its keys next to a row of another
\* key, stored by an earlier call
C28_Witness ==
    /\ hist # <<>> /\ Wrote(hist[1])
    /\ hist[1].after # hist[1].before
    /\ \E r \in OtherKeyRows(hist[1]) : CopiesIn(r, hist[1].before) > 0
    /\ \E r \in DOMAIN hist[1].before : r[KeyCol(hist[1].table_name)] \in KeysOfBatch(hist[1])

---------------------------------------------------------------------------
(* migrate_movies_table.py: main and run_table_migration (SpecMigrate).    *)
(* db maps a file name to the committed contents of that database file: a  *)
(* function from table names to [dtype, rows], dtype the type of the id    *)
(* column and rows the set of id values.  Every table has an id column     *)
(* with integer values, so main puts every inspected table in              *)
(* overall_migrations.                                                     *)

DbFile == "TMDB"
BackupFile == "TMDB.bak"

\* information_schema.tables ORDER BY table_name
TableOrder == <<"movies", "tv_shows">>

RowIds == {1, 2}
ColumnTypes == {"INTEGER", "BIGINT"}

\* the contents a database file can have before a run
FileContents ==
    UNION {[S -> [dtype : ColumnTypes, rows : SUBSET RowIds]] :
              S \in SUBSET Range(TableOrder)}

\* the --tables arguments: none, or table names
TablesArgs == {<<>>, <<"movies">>, <<"tv_shows", "movies">>, <<"people">>}

\* the statements of run_table_migration, and the steps of main, that can fail
MigrationFaults == {"none", "create", "drop", "rename", "commit"}

\* backup_db(db_path): the files after shutil.copy2(db_path, bak)
backup_db(files) == [f \in DOMAIN files \cup {BackupFile} |-> files[DbFile]]

\* restore_backup(backup_path, db_path)
restore_backup(files) ==
    IF BackupFile \in DOMAIN files
    THEN [files EXCEPT ![DbFile] = files[BackupFile]]
    ELSE files

\* table + "_new"
NewName(table) == table \o "_new"

\* CREATE TABLE <table>_new AS SELECT CAST(id AS BIGINT) ... FROM <table>: the
\* copy the engine made; run_table_migration counts its rows and does not
\* take it to be complete, so it is the cast table less the rows in lost
CreateAsSelect(T, lost) == [dtype |-> "BIGINT", rows |-> T.rows \ lost]

\* a function without the argument x
Without(f, x) == [y \in DOMAIN f \ {x} |-> f[y]]

\* a function with f[x] = v
With(f, x, v) == [y \in DOMAIN f \cup {x} |-> IF y = x THEN v ELSE f[y]]

\* the table is swapped whatever the two counts are
run_table_migration_unchecked(D, table, lost, fault) ==
    LET copy == CreateAsSelect(D[table], lost)
    IN [committed |-> With(D, table, copy), working |-> With(D, table, copy),
        in_txn |-> FALSE, raised |-> FALSE, outcome |-> "ok", counted |-> TRUE,
        old_count |-> Cardinality(D[table].rows),
        new_count |-> Cardinality(copy.rows)]

\* run_table_migration(con, table, cols_to_cast) on committed contents D:
\* the committed contents after it, the contents the connection sees, whether
\* its transaction is still open, whether it raised, whether it came to count
\* the rows
run_table_migration(D, table, lost, fault) ==
    LET copy == CreateAsSelect(D[table], lost)
        created == With(D, NewName(table), copy)
        dropped == Without(created, table)
        renamed == With(Without(dropped, NewName(table)), table, copy)
        old_count == Cardinality(D[table].rows)
        new_count == Cardinality(copy.rows)
        Open(working, outcome) ==
            [committed |-> D, working |-> working, in_txn |-> TRUE,
             raised |-> TRUE, outcome |-> outcome, counted |-> outcome # "create",
             old_count |-> old_count, new_count |-> new_count]
    IN IF fault = "create" \/ NewName(table) \in DOMAIN D
       THEN Open(D, "create")
       ELSE IF old_count # new_count
       THEN [committed |-> D, working |-> D, in_txn |-> FALSE,
             raised |-> TRUE, outcome |-> "mismatch", counted |-> TRUE,
             old_count |-> old_count, new_count |-> new_count]
       ELSE IF fault = "drop" THEN Open(created, "drop")
       ELSE IF fault = "rename" THEN Open(dropped, "rename")
       ELSE IF fault = "commit" THEN Open(renamed, "commit")
       ELSE [committed |-> renamed, working |-> renamed, in_txn |-> FALSE,
             raised |-> FALSE, outcome |-> "ok", counted |-> TRUE,
             old_count |-> old_count, new_count |-> new_count]

\* the handler ends without restoring the backup
OnFailure_keeps(files, committed, no_restore) ==
    [files EXCEPT ![DbFile] = committed]

\* "except Exception as err" of main: ROLLBACK, con.close(), and unless
\* --no-restore restore_backup: the files it leaves
OnFailure(files, committed, no_restore) ==
    LET closed == [files EXCEPT ![DbFile] = committed]
    IN IF ~no_restore THEN restore_backup(closed) ELSE closed

\* overall_migrations: the tables to inspect that the file holds, every one
\* with its id column to cast
Migrations(D, tables) ==
    SelectSeq(IF tables # <<>> THEN tables ELSE TableOrder,
              LAMBDA t : t \in DOMAIN D)

\* the record of a run of main that ended
Exit(status, failed, start) ==
    [op |-> "main", status |-> status, failed |-> failed, start |-> start,
     no_restore |-> args.no_restore, log |-> log]

InitMigrate ==
    /\ \E D \in FileContents, present \in BOOLEAN :
          db = IF present THEN [f \in {DbFile} |-> D] ELSE [f \in {} |-> D]
    /\ temp = {}
    /\ previews = {}
    /\ clock = 0
    /\ pc = "main"
    /\ \E dry_run \in BOOLEAN, generate_sql \in BOOLEAN, no_restore \in BOOLEAN,
          tables \in TablesArgs :
          args = [dry_run |-> dry_run, generate_sql |-> generate_sql,
                  no_restore |-> no_restore, tables |-> tables]
    /\ loc = NoLocals
    /\ log = <<>>
    /\ hist = <<>>
    /\ calls = 0

\* main from the backup to the start of the apply loop
MainInspect ==
    /\ pc = "main"
    /\ IF DbFile \notin DOMAIN db
       THEN /\ pc' = "exited"
            /\ hist' = <<Exit(1, "backup", <<>>)>>
            /\ UNCHANGED <<db, loc, previews>>
       ELSE \E fault \in {"none", "inspect"} :
            LET files == backup_db(db)
                start == db[DbFile]
                migrations == Migrations(start, args.tables)
            IN IF fault = "inspect" /\ migrations # <<>>
               THEN /\ db' = OnFailure(files, start, args.no_restore)
                    /\ pc' = "exited"
                    /\ hist' = <<Exit(1, "inspect", start)>>
                    /\ UNCHANGED <<loc, previews>>
               ELSE /\ db' = files
                    /\ previews' = IF migrations # <<>>
                                       /\ (args.generate_sql \/ args.dry_run)
                                    THEN Range(migrations) ELSE previews
                    /\ IF migrations = <<>> \/ args.dry_run
                       THEN /\ pc' = "exited"
                            /\ hist' = <<Exit(0, "", start)>>
                            /\ UNCHANGED loc
                       ELSE /\ pc' = "apply"
                            /\ loc' = [start |-> start, migrations |-> migrations,
                                       i |-> 1]
                            /\ UNCHANGED hist
    /\ UNCHANGED <<temp, clock, args, log, calls>>

\* one iteration of "for t, cols in overall_migrations.items()"
MainApply ==
    /\ pc = "apply"
    /\ \E fault \in MigrationFaults,
          lost \in {{}} \cup {{r} : r \in db[DbFile][loc.migrations[loc.i]].rows} :
        LET t == loc.migrations[loc.i]
            res == run_table_migration(db[DbFile], t, lost, fault)
            call == [table |-> t, before |-> db[DbFile], after |-> res.working,
                     committed |-> res.committed, in_txn |-> res.in_txn,
                     raised |-> res.raised, outcome |-> res.outcome,
                     counted |-> res.counted,
                     old_count |-> res.old_count, new_count |-> res.new_count]
        IN /\ log' = Append(log, call)
           /\ IF res.raised
              THEN /\ db' = OnFailure(db, res.committed, args.no_restore)
                   /\ pc' = "exited"
                   /\ hist' = <<[Exit(1, "apply", loc.start)
                                   EXCEPT !.log = Append(log, call)]>>
                   /\ loc' = NoLocals
              ELSE /\ db' = [db EXCEPT ![DbFile] = res.committed]
                   /\ pc' = IF loc.i < Len(loc.migrations) THEN "apply" ELSE "verify"
                   /\ loc' = [loc EXCEPT !.i = @ + 1]
                   /\ UNCHANGED hist
    /\ UNCHANGED <<temp, previews, clock, args, calls>>

\* the final verification of the column types, con.close()
MainVerify ==
    /\ pc = "verify"
    /\ \E fault \in {"none", "verify"} :
        IF fault = "verify"
        THEN /\ db' = OnFailure(db, db[DbFile], args.no_restore)
             /\ hist' = <<Exit(1, "verify", loc.start)>>
        ELSE /\ db' = db
             /\ hist' = <<Exit(0, "", loc.start)>>
    /\ pc' = "exited"
    /\ loc' = NoLocals
    /\ UNCHANGED <<temp, previews, clock, args, log, calls>>

NextMigrate == MainInspect \/ MainApply \/ MainVerify

SpecMigrate == InitMigrate /\ [][NextMigrate]_vars

C26_SwapOnlyOnEqualCounts ==
    \A k \in DOMAIN log :
        LET e == log[k]
        IN /\ (e.counted /\ e.old_count # e.new_count) =>
                 /\ e.raised /\ e.outcome = "mismatch" /\ ~e.in_txn
                 /\ e.after = e.before /\ e.committed = e.before
                 /\ NewName(e.table) \notin DOMAIN e.after
           /\ ~e.raised =>
                 /\ e.old_count = e.new_count
                 /\ Cardinality(e.after[e.table].rows)
                       = Cardinality(e.before[e.table].rows)
                 /\ e.after[e.table].dtype = "BIGINT"
                 /\ NewName(e.table) \notin DOMAIN e.after
                 /\ e.committed = e.after
           /\ e.committed # e.before => (e.counted /\ e.old_count = e.new_count)

\* one migration found a shorter copy and rolled back, another one swapped
C26_Witness ==
    /\ Len(log) = 2
    /\ log[1].outcome = "ok" /\ log[1].after # log[1].before
    /\ log[1].old_count > 0
    /\ log[2].outcome = "mismatch"

---------------------------------------------------------------------------
(* backup_to_glacier.py: backup_database(use_sample=False) (SpecBackup).   *)
(* db maps a catalog to its tables: TMDB to the set of its table names,    *)
(* TMDB_backup to a function from table names to the source table and the  *)
(* run the table was copied from and by.                                   *)

MaxBackupRuns == 2
MaxBackupTime == 1

\* the tables of md:TMDB
TmdbTables == {"movies", "tv_shows", "old_backup_movies"}

\* s LIKE '%' || sub || '%'
Contains(s, sub) ==
    \E k \in 1 .. Len(s) - Len(sub) + 1 : SubSeq(s, k, k + Len(sub) - 1) = sub

\* table_name NOT LIKE '%\_backup\_%' ESCAPE '\'
Live(name) == ~Contains(name, "_backup_")

\* strftime('%Y%m%d_%H%M%S') of the time t, in seconds
md_timestamp(t) == "2026_" \o ToString(t)

\* the rows of a SELECT without ORDER BY over the set S, in any order
AnyOrder(S) == {q \in [1 .. Cardinality(S) -> S] : Range(q) = S}

BackupFaults == {"none", "fail"}

\* the record of a run of backup_database that ended
BackupExit(outcome) ==
    [op |-> "backup_database", outcome |-> outcome, run |-> calls,
     before |-> loc.before, previous_tables |-> loc.previous_tables,
     source_tables |-> loc.source_tables, new_tables |-> loc.new_tables]

InitBackup ==
    /\ db = [TMDB |-> TmdbTables, TMDB_backup |-> <<>>]
    /\ temp = {}
    /\ previews = {}
    /\ clock = 0
    /\ pc = "idle"
    /\ args = <<>>
    /\ loc = NoLocals
    /\ log = <<>>
    /\ hist = <<>>
    /\ calls = 0

\* backup_database up to the copy loop: the timestamp, the two ATTACH, the
\* previous backup tables, the live source tables
BackupStart ==
    /\ pc = "idle"
    /\ calls < MaxBackupRuns
    /\ calls' = calls + 1
    /\ \E fault \in BackupFaults,
          previous_tables \in AnyOrder(DOMAIN db.TMDB_backup),
          source_tables \in AnyOrder({t \in db.TMDB : Live(t)}) :
        LET l == [md_timestamp |-> md_timestamp(clock),
                  previous_tables |-> previous_tables,
                  source_tables |-> source_tables, new_tables |-> <<>>,
                  i |-> 1, before |-> db.TMDB_backup]
        IN IF fault = "fail"
           THEN /\ hist' = <<[op |-> "backup_database", outcome |-> "attach_failed",
                              run |-> calls', before |-> db.TMDB_backup,
                              previous_tables |-> <<>>, source_tables |-> <<>>,
                              new_tables |-> <<>>]>>
                /\ UNCHANGED <<pc, loc>>
           ELSE /\ loc' = l
                /\ pc' = "copy"
                /\ hist' = <<>>
    /\ UNCHANGED <<db, temp, previews, clock, args, log>>

\* one iteration of "for table in source_tables": CREATE OR REPLACE TABLE
\* TMDB_backup.main."<name>_<md_timestamp>" AS SELECT * FROM TMDB.main."<name>"
CopyTable ==
    /\ pc = "copy"
    /\ \E fault \in BackupFaults :
        LET name == loc.source_tables[loc.i]
            new_name == name \o "_" \o loc.md_timestamp
        IN IF fault = "fail"
           THEN /\ pc' = "idle"
                /\ hist' = <<BackupExit("copy_failed")>>
                /\ loc' = NoLocals
                /\ UNCHANGED db
           ELSE /\ db' = [db EXCEPT !.TMDB_backup =
                              With(@, new_name, [source |-> name, run |-> calls])]
                /\ loc' = [loc EXCEPT !.new_tables = Append(@, new_name),
                                      !.i = IF loc.i < Len(loc.source_tables)
                                            THEN @ + 1 ELSE 1]
                /\ pc' = IF loc.i < Len(loc.source_tables) THEN "copy"
                         ELSE IF loc.previous_tables # <<>> THEN "drop"
                         ELSE "local"
                /\ UNCHANGED hist
    /\ UNCHANGED <<temp, previews, clock, args, log, calls>>

\* one iteration of "for table_name in previous_tables": DROP TABLE IF EXISTS
DropPrevious ==
    /\ pc = "drop"
    /\ \E fault \in BackupFaults :
        IF fault = "fail"
        THEN /\ pc' = "idle"
             /\ hist' = <<BackupExit("drop_failed")>>
             /\ loc' = NoLocals
             /\ UNCHANGED db
        ELSE /\ db' = [db EXCEPT !.TMDB_backup = Without(@, loc.previous_tables[loc.i])]
             /\ loc' = [loc EXCEPT !.i = IF loc.i < Len(loc.previous_tables)
                                         THEN @ + 1 ELSE 1]
             /\ pc' = IF loc.i < Len(loc.previous_tables) THEN "drop" ELSE "local"
             /\ UNCHANGED hist
    /\ UNCHANGED <<temp, previews, clock, args, log, calls>>

\* the copy of TMDB into the local file, conn.close(), return backup_file
LocalCopy ==
    /\ pc = "local"
    /\ \E fault \in BackupFaults :
        /\ hist' = <<BackupExit(IF fault = "fail" THEN "local_failed" ELSE "returned")>>
        /\ previews' = IF fault = "fail" THEN previews
                       ELSE previews \cup {[backup_file |-> loc.md_timestamp]}
    /\ pc' = "idle"
    /\ loc' = NoLocals
    /\ UNCHANGED <<db, temp, clock, args, log, calls>>

\* time passes between two runs
TickBackup ==
    /\ pc = "idle"
    /\ clock < MaxBackupTime
    /\ clock' = clock + 1
    /\ UNCHANGED <<db, temp, previews, pc, args, loc, log, hist, calls>>

NextBackup == BackupStart \/ CopyTable \/ DropPrevious \/ LocalCopy \/ TickBackup

SpecBackup == InitBackup /\ [][NextBackup]_vars

\* the backup tables of the run recorded in h for source table name
BackupsBy(h, name) ==
    {t \in DOMAIN db.TMDB_backup :
        db.TMDB_backup[t].source = name /\ db.TMDB_backup[t].run = h.run}

\* C27: a previous backup table is gone only when every live source table
\* has been copied; when a copy fails every previous backup table is still
\* there; after a run that returned every source table has a backup table
\* made by this run, and no table this run made has been dropped.
C27_PreviousDroppedAfterAllCopied ==
    /\ (pc \in {"copy", "drop", "local"}
           /\ DOMAIN loc.before \ DOMAIN db.TMDB_backup # {}) =>
          Len(loc.new_tables) = Len(loc.source_tables)
    /\ (Ended /\ hist[1].outcome = "copy_failed") =>
          DOMAIN hist[1].before \subseteq DOMAIN db.TMDB_backup
    /\ (Ended /\ hist[1].outcome = "returned") =>
          /\ \A k \in DOMAIN hist[1].source_tables :
                BackupsBy(hist[1], hist[1].source_tables[k]) # {}
          /\ Range(hist[1].new_tables) \subseteq DOMAIN db.TMDB_backup

====
